---- MODULE Spec2Model ----
(***************************************************************************)
(* A model of golog: the Manager (channel cache, shared context, default   *)
(* channel), the LogChannel and Driver objects it constructs, the Stack    *)
(* driver, and the Logger views handed out to callers.                     *)
(*                                                                         *)
(* Objects live in heaps (sequences indexed by object identity), so that   *)
(* "the same Channel object" and "the same Driver instance" are statable.  *)
(* Context maps are functions from a subset of Keys to Vals.               *)
(***************************************************************************)
EXTENDS Integers, Sequences, FiniteSets, TLC

VARIABLES
    config,           \* Manager.config.Channels: channel name -> ChannelConfig
    driverFactories,  \* the package-level registry: driver kind -> factory
    channels,         \* Manager.channels: channel name -> LogChannel identity
    defaultChannel,   \* Manager.defaultChannel
    sharedContext,    \* Manager.sharedContext
    chans,            \* heap of LogChannel objects
    drvs,             \* heap of Driver objects
    loggers,          \* heap of Logger objects
    ret,              \* what the last completed call returned and did
    threads,          \* per thread: position inside Manager.Channel and its locals
    history,          \* the keys given to ShareContext: ever, and since the last flush
    mu,               \* the FileDrivers whose mutex is held
    written,          \* what the FileDrivers wrote to their files, in order
    writers,          \* per thread: position inside FileDriver.Log and its call
    inflight,         \* the goroutines SlackDriver.Log started that have not sent yet
    sends,            \* the calls of SlackDriver.send so far, with their outcomes
    golog             \* the package variables defaultManager and once

\* the state of the drivers' files, locks and network exchanges
driverIO == <<mu, written, writers, inflight, sends>>

vars == <<config, driverFactories, channels, defaultChannel, sharedContext,
          chans, drvs, loggers, ret, threads, history, driverIO, golog>>

-----------------------------------------------------------------------------
(* Bounds of the model *)

MaxDrivers == 4
MaxLoggers == 2
MaxViews == 3
MaxCalls == 3
MaxPad == 1
MaxFrames == 13
MaxLookups == 1

-----------------------------------------------------------------------------
(* Levels *)

DebugLevel == 0
InfoLevel == 1
NoticeLevel == 2
WarningLevel == 3
ErrorLevel == 4
CriticalLevel == 5
AlertLevel == 6
EmergencyLevel == 7

Levels == DebugLevel..EmergencyLevel

\* A string that is parsed is the sequence of its characters.

\* unicode.ToUpper on the letters a to z; every other character of the model
\* is its own upper case
UpperCase ==
    [a |-> "A", b |-> "B", c |-> "C", d |-> "D", e |-> "E", f |-> "F", g |-> "G",
     h |-> "H", i |-> "I", j |-> "J", k |-> "K", l |-> "L", m |-> "M", n |-> "N",
     o |-> "O", p |-> "P", q |-> "Q", r |-> "R", s |-> "S", t |-> "T", u |-> "U",
     v |-> "V", w |-> "W", x |-> "X", y |-> "Y", z |-> "Z"]

\* the white space characters of the model (unicode.IsSpace)
Spaces == {" ", "\t", "\n"}

RECURSIVE TrimLeft(_)
\* strings.TrimLeftFunc(s, unicode.IsSpace)
TrimLeft(s) ==
    IF s # <<>> /\ Head(s) \in Spaces THEN TrimLeft(Tail(s)) ELSE s

RECURSIVE TrimRight(_)
\* strings.TrimRightFunc(s, unicode.IsSpace)
TrimRight(s) ==
    IF s # <<>> /\ s[Len(s)] \in Spaces THEN TrimRight(SubSeq(s, 1, Len(s) - 1)) ELSE s

\* TrimSpace that removes the leading white space only
TrimSpaceLeading(s) == TrimLeft(s)

\* strings.TrimSpace
TrimSpace(s) == TrimRight(TrimLeft(s))

\* strings.ToUpper
ToUpper(s) ==
    [i \in 1..Len(s) |-> IF s[i] \in DOMAIN UpperCase THEN UpperCase[s[i]] ELSE s[i]]

\* the strings of the case labels of ParseLevel
DEBUG == <<"D", "E", "B", "U", "G">>
INFO == <<"I", "N", "F", "O">>
NOTICE == <<"N", "O", "T", "I", "C", "E">>
WARNING == <<"W", "A", "R", "N", "I", "N", "G">>
WARN == <<"W", "A", "R", "N">>
ERROR == <<"E", "R", "R", "O", "R">>
ERR == <<"E", "R", "R">>
CRITICAL == <<"C", "R", "I", "T", "I", "C", "A", "L">>
CRIT == <<"C", "R", "I", "T">>
ALERT == <<"A", "L", "E", "R", "T">>
EMERGENCY == <<"E", "M", "E", "R", "G", "E", "N", "C", "Y">>
EMERG == <<"E", "M", "E", "R", "G">>

ParseLevel(s) ==
    LET u == ToUpper(TrimSpace(s)) IN
    CASE u = DEBUG                  -> DebugLevel
      [] u = INFO                   -> InfoLevel
      [] u = NOTICE                 -> NoticeLevel
      [] u \in {WARNING, WARN}      -> WarningLevel
      [] u \in {ERROR, ERR}         -> ErrorLevel
      [] u \in {CRITICAL, CRIT}     -> CriticalLevel
      [] u = ALERT                  -> AlertLevel
      [] u \in {EMERGENCY, EMERG}   -> EmergencyLevel
      [] OTHER                      -> InfoLevel

-----------------------------------------------------------------------------
(* Context maps *)

Keys == {"env", "user"}
Vals == {"v1", "v2"}

EmptyCtx == [k \in {} |-> "v1"]

\* all context maps over Keys
Ctxs == UNION {[D -> Vals] : D \in SUBSET Keys}

\* for k, v := range m { c[k] = v }
Overlay(c, m) ==
    [k \in (DOMAIN c) \cup (DOMAIN m) |-> IF k \in DOMAIN m THEN m[k] ELSE c[k]]

\* the maps callers pass to ShareContext and to the emit methods
CtxInputs ==
    { [k \in {"env"} |-> "v1"],
      [k \in {"env", "user"} |-> "v2"] }

\* mergeLoop in which a key keeps the value of the first map that binds it
RECURSIVE mergeLoopFirstWins(_, _, _)
mergeLoopFirstWins(contexts, i, result) ==
    IF i > Len(contexts) THEN result
    ELSE mergeLoopFirstWins(contexts, i + 1, Overlay(contexts[i], result))

\* the loop of mergeContext over its arguments
RECURSIVE mergeLoop(_, _, _)
mergeLoop(contexts, i, result) ==
    IF i > Len(contexts) THEN result
    ELSE mergeLoop(contexts, i + 1, Overlay(result, contexts[i]))

mergeContext(contexts) == mergeLoop(contexts, 1, EmptyCtx)

-----------------------------------------------------------------------------
(* Configuration *)

\* a ChannelConfig; FileConfig is whether the pointer is non-nil and Path its
\* field, StackConfig likewise with its fields Channels and IgnoreExceptions
ChannelConfig(driver, level, file, path, stack, members, ignore) ==
    [Driver |-> driver, Level |-> level, FileConfig |-> file, Path |-> path,
     StackConfig |-> stack, Channels |-> members, IgnoreExceptions |-> ignore,
     SlackConfig |-> FALSE, WebhookURL |-> "", Async |-> FALSE]

\* NewSlackChannelConfig(webhookURL), with Async set
SlackChannel(webhookURL, async) ==
    [ChannelConfig("slack", <<"d", "e", "b", "u", "g">>, FALSE, "", FALSE, <<>>, FALSE)
        EXCEPT !.SlackConfig = TRUE, !.WebhookURL = webhookURL, !.Async = async]

\* NewFileChannelConfig(path), with the level set
FileChannel(path, level) == ChannelConfig("file", level, TRUE, path, FALSE, <<>>, FALSE)

\* the configurations the Manager is constructed with: two file channels, a
\* stack over both, a stack with an empty member list, a stack over the
\* stack, a stack with a member name that is not configured, a channel of an
\* unregistered driver kind, and a synchronous and an asynchronous webhook
\* channel
ConfigWith(ignore) ==
    [ file   |-> FileChannel("app.log", <<"d", "e", "b", "u", "g">>),
      errors |-> FileChannel("errors.log", <<" ", "e", "r", "r", "o", "r", " ">>),
      stack  |-> ChannelConfig("stack", <<>>, FALSE, "", TRUE, <<"file", "errors">>, ignore),
      empty  |-> ChannelConfig("stack", <<"d", "e", "b", "u", "g">>, FALSE, "", TRUE, <<>>, ignore),
      nested |-> ChannelConfig("stack", <<>>, FALSE, "", TRUE, <<"stack">>, ignore),
      dangling |-> ChannelConfig("stack", <<>>, FALSE, "", TRUE, <<"file", "missing">>, ignore),
      custom |-> ChannelConfig("unsupported", <<"d", "e", "b", "u", "g">>, FALSE, "", FALSE, <<>>, FALSE),
      hook      |-> SlackChannel("https://hooks.example/T1", FALSE),
      hookAsync |-> SlackChannel("https://hooks.example/T1", TRUE) ]

Configs == {ConfigWith(FALSE), ConfigWith(TRUE)}

\* the names callers ask for: the configured ones and one that is not
ChannelNames == {"file", "errors", "stack", "empty", "custom", "missing"}

BuiltinFactories == [file |-> "NewFileDriver", slack |-> "NewSlackDriver"]

-----------------------------------------------------------------------------
(* Errors *)

\* the error values of Manager.Channel; "nil" is success
ErrNotDefined == "channel is not defined"
ErrNotSupported == "driver is not supported"
ErrCreateDriver == "failed to create driver"
ErrStackRequiresList == "stack channel requires channel list"
ErrStackMemberNotDefined == "channel in stack is not defined"

\* the error values of Driver.Log and Driver.Close: which driver failed
NoErr == [kind |-> "nil", driver |-> 0]
LogErr(d) == [kind |-> "log", driver |-> d]
CloseErr(d) == [kind |-> "close", driver |-> d]

-----------------------------------------------------------------------------
(* Drivers *)

\* kind is the driver's type, path a FileDriver's path, drivers and
\* ignoreExceptions a StackDriver's fields, async a SlackDriver's field;
\* closes counts the invocations of Close on the driver
FileDriver(path) ==
    [kind |-> "file", path |-> path, drivers |-> <<>>, ignoreExceptions |-> FALSE,
     closes |-> 0, async |-> FALSE]

SlackDriver(async) ==
    [kind |-> "slack", path |-> "", drivers |-> <<>>, ignoreExceptions |-> FALSE,
     closes |-> 0, async |-> async]

StackDriver(drivers, ignore) ==
    [kind |-> "stack", path |-> "", drivers |-> drivers, ignoreExceptions |-> ignore,
     closes |-> 0, async |-> FALSE]

\* NewFileDriver: osFails is whether MkdirAll or OpenFile fails
NewFileDriver(cfg, osFails) ==
    IF ~cfg.FileConfig
    THEN [err |-> "file configuration is required", driver |-> FileDriver("")]
    ELSE IF osFails
    THEN [err |-> "failed to open log file", driver |-> FileDriver(cfg.Path)]
    ELSE [err |-> "nil", driver |-> FileDriver(cfg.Path)]

NewSlackDriver(cfg, osFails) ==
    IF ~cfg.SlackConfig
    THEN [err |-> "slack configuration is required", driver |-> SlackDriver(FALSE)]
    ELSE IF cfg.WebhookURL = ""
    THEN [err |-> "slack webhook URL is required", driver |-> SlackDriver(FALSE)]
    ELSE [err |-> "nil", driver |-> SlackDriver(cfg.Async)]

\* a driver of a kind of the caller's own
MockDriver ==
    [kind |-> "mock", path |-> "", drivers |-> <<>>, ignoreExceptions |-> FALSE,
     closes |-> 0, async |-> FALSE]

\* a factory handed to RegisterDriver: it ignores the configuration and never fails
NewMockDriver(cfg, osFails) == [err |-> "nil", driver |-> MockDriver]

\* factory(config), for the factory the registry binds
CallFactory(factory, cfg, osFails) ==
    IF factory = "NewFileDriver" THEN NewFileDriver(cfg, osFails)
    ELSE IF factory = "NewSlackDriver" THEN NewSlackDriver(cfg, osFails)
    ELSE NewMockDriver(cfg, osFails)

\* GetDriverFactory that finds the file factory for every kind
GetDriverFactoryAny(name) == [factory |-> "NewFileDriver", exists |-> TRUE]

GetDriverFactory(name) ==
    IF name \in DOMAIN driverFactories
    THEN [factory |-> driverFactories[name], exists |-> TRUE]
    ELSE [factory |-> "", exists |-> FALSE]

LogChannel(name, driver, level) ==
    [name |-> name, driver |-> driver, level |-> level, ctx |-> EmptyCtx]

NoChannel == LogChannel("", 0, 0)

\* stackMembers that aborts on a failing member whatever ignore is
RECURSIVE stackMembersAbort(_, _, _, _, _, _)
stackMembersAbort(members, i, ignore, broken, heap, drivers) ==
    IF i > Len(members) THEN [err |-> "nil", heap |-> heap, drivers |-> drivers]
    ELSE
        LET chName == members[i] IN
        IF chName \notin DOMAIN config
        THEN [err |-> ErrStackMemberNotDefined, heap |-> heap, drivers |-> drivers]
        ELSE
            LET chConfig == config[chName]
                f == GetDriverFactory(chConfig.Driver)
            IN
            IF ~f.exists
            THEN [err |-> ErrNotSupported, heap |-> heap, drivers |-> drivers]
            ELSE
                LET r == CallFactory(f.factory, chConfig, chName \in broken) IN
                IF r.err # "nil"
                THEN [err |-> ErrCreateDriver, heap |-> heap, drivers |-> drivers]
                ELSE stackMembersAbort(members, i + 1, ignore, broken,
                                       Append(heap, r.driver), Append(drivers, Len(heap) + 1))

\* stackMembers whose ignore also skips a member that is not configured or
\* whose driver kind is not registered
RECURSIVE stackMembersSkip(_, _, _, _, _, _)
stackMembersSkip(members, i, ignore, broken, heap, drivers) ==
    IF i > Len(members) THEN [err |-> "nil", heap |-> heap, drivers |-> drivers]
    ELSE
        LET chName == members[i] IN
        IF chName \notin DOMAIN config
        THEN IF ~ignore
             THEN [err |-> ErrStackMemberNotDefined, heap |-> heap, drivers |-> drivers]
             ELSE stackMembersSkip(members, i + 1, ignore, broken, heap, drivers)
        ELSE
            LET chConfig == config[chName]
                f == GetDriverFactory(chConfig.Driver)
            IN
            IF ~f.exists
            THEN IF ~ignore
                 THEN [err |-> ErrNotSupported, heap |-> heap, drivers |-> drivers]
                 ELSE stackMembersSkip(members, i + 1, ignore, broken, heap, drivers)
            ELSE
                LET r == CallFactory(f.factory, chConfig, chName \in broken) IN
                IF r.err # "nil"
                THEN IF ~ignore
                     THEN [err |-> ErrCreateDriver, heap |-> heap, drivers |-> drivers]
                     ELSE stackMembersSkip(members, i + 1, ignore, broken, heap, drivers)
                ELSE stackMembersSkip(members, i + 1, ignore, broken,
                                      Append(heap, r.driver), Append(drivers, Len(heap) + 1))

\* the loop of createStackChannel over config.StackConfig.Channels: heap is the
\* driver heap so far, drivers the fan-out list so far, broken the member
\* names whose file cannot be opened
RECURSIVE stackMembers(_, _, _, _, _, _)
stackMembers(members, i, ignore, broken, heap, drivers) ==
    IF i > Len(members) THEN [err |-> "nil", heap |-> heap, drivers |-> drivers]
    ELSE
        LET chName == members[i] IN
        IF chName \notin DOMAIN config
        THEN [err |-> ErrStackMemberNotDefined, heap |-> heap, drivers |-> drivers]
        ELSE
            LET chConfig == config[chName]
                f == GetDriverFactory(chConfig.Driver)
            IN
            IF ~f.exists
            THEN [err |-> ErrNotSupported, heap |-> heap, drivers |-> drivers]
            ELSE
                LET r == CallFactory(f.factory, chConfig, chName \in broken) IN
                IF r.err # "nil"
                THEN IF ~ignore
                     THEN [err |-> ErrCreateDriver, heap |-> heap, drivers |-> drivers]
                     ELSE stackMembers(members, i + 1, ignore, broken, heap, drivers)
                ELSE stackMembers(members, i + 1, ignore, broken,
                                  Append(heap, r.driver), Append(drivers, Len(heap) + 1))

\* the level of a stack channel
stackLevel(cfg) == IF cfg.Level = <<>> THEN DebugLevel ELSE ParseLevel(cfg.Level)

createStackChannel(name, cfg, broken) ==
    IF ~cfg.StackConfig \/ Len(cfg.Channels) = 0
    THEN [err |-> ErrStackRequiresList, heap |-> drvs, channel |-> NoChannel]
    ELSE
        LET m == stackMembers(cfg.Channels, 1, cfg.IgnoreExceptions, broken, drvs, <<>>) IN
        IF m.err # "nil"
        THEN [err |-> m.err, heap |-> m.heap, channel |-> NoChannel]
        ELSE [err |-> "nil",
              heap |-> Append(m.heap, StackDriver(m.drivers, cfg.IgnoreExceptions)),
              channel |-> LogChannel(name, Len(m.heap) + 1, stackLevel(cfg))]

\* Manager.createChannel: the error, the driver heap afterwards (a driver that
\* was constructed stays allocated whatever the outcome) and the new channel
createChannel(name, broken) ==
    IF name \notin DOMAIN config
    THEN [err |-> ErrNotDefined, heap |-> drvs, channel |-> NoChannel]
    ELSE
        LET cfg == config[name] IN
        IF cfg.Driver = "stack" THEN createStackChannel(name, cfg, broken)
        ELSE
            LET f == GetDriverFactory(cfg.Driver) IN
            IF ~f.exists
            THEN [err |-> ErrNotSupported, heap |-> drvs, channel |-> NoChannel]
            ELSE
                LET r == CallFactory(f.factory, cfg, name \in broken) IN
                IF r.err # "nil"
                THEN [err |-> ErrCreateDriver, heap |-> drvs, channel |-> NoChannel]
                ELSE [err |-> "nil", heap |-> Append(drvs, r.driver),
                      channel |-> LogChannel(name, Len(drvs) + 1, ParseLevel(cfg.Level))]

\* Manager.SharedContext: a copy of the shared context
SharedContext == Overlay(EmptyCtx, sharedContext)

\* NewLogger that leaves out the Manager's shared context
NewLoggerChannelOnly(ch, heap) ==
    [channel |-> ch, ctx |-> Overlay(EmptyCtx, heap[ch].ctx)]

\* NewLogger on channel object ch of the channel heap: the channel's context
\* overlaid by the shared context, copied
NewLogger(ch, heap) ==
    [channel |-> ch, ctx |-> Overlay(Overlay(EmptyCtx, heap[ch].ctx), SharedContext)]

-----------------------------------------------------------------------------
(* Driver.Log and Driver.Close *)

\* the drivers that do the writing for driver d: its members, or d itself
Leaves(d) ==
    IF drvs[d].kind = "stack"
    THEN {drvs[d].drivers[i] : i \in 1..Len(drvs[d].drivers)}
    ELSE {d}

\* FileDriver.Log / SlackDriver.Log of driver d: failing are the drivers the
\* environment makes fail this time; a write to a closed file fails
LeafLogFails(d, failing) ==
    d \in failing \/ (drvs[d].kind = "file" /\ drvs[d].closes > 0)

\* FileDriver.Close / SlackDriver.Close: closing a closed file fails, and
\* SlackDriver.Close returns nil
LeafCloseFails(d, failing) ==
    drvs[d].kind = "file" /\ (d \in failing \/ drvs[d].closes > 0)

\* stackLog that returns at the first member failure it reports
RECURSIVE stackLogStop(_, _, _, _, _)
stackLogStop(drivers, i, ignoreExceptions, failing, acc) ==
    IF i > Len(drivers) THEN acc
    ELSE
        LET driver == drivers[i]
            fails == LeafLogFails(driver, failing)
            next == [err    |-> IF fails /\ ~ignoreExceptions THEN LogErr(driver) ELSE acc.err,
                     calls  |-> Append(acc.calls, driver),
                     failed |-> IF fails THEN acc.failed \cup {driver} ELSE acc.failed]
        IN
        IF fails /\ ~ignoreExceptions THEN next
        ELSE stackLogStop(drivers, i + 1, ignoreExceptions, failing, next)

\* the loop of StackDriver.Log: calls are the members whose Log was invoked,
\* in order, failed those whose Log returned an error
RECURSIVE stackLog(_, _, _, _, _)
stackLog(drivers, i, ignoreExceptions, failing, acc) ==
    IF i > Len(drivers) THEN acc
    ELSE
        LET driver == drivers[i]
            fails == LeafLogFails(driver, failing)
        IN
        stackLog(drivers, i + 1, ignoreExceptions, failing,
                 [err    |-> IF fails /\ ~ignoreExceptions THEN LogErr(driver) ELSE acc.err,
                  calls  |-> Append(acc.calls, driver),
                  failed |-> IF fails THEN acc.failed \cup {driver} ELSE acc.failed])

\* StackDriverLog that reports member failures whatever ignoreExceptions is
StackDriverLogStrict(d, failing) ==
    stackLog(drvs[d].drivers, 1, FALSE, failing,
             [err |-> NoErr, calls |-> <<>>, failed |-> {}])

StackDriverLog(d, failing) ==
    stackLog(drvs[d].drivers, 1, drvs[d].ignoreExceptions, failing,
             [err |-> NoErr, calls |-> <<>>, failed |-> {}])

\* driver.Log(entry) for any driver d
DriverLog(d, failing) ==
    IF drvs[d].kind = "stack"
    THEN LET r == StackDriverLog(d, failing) IN
         [err |-> r.err, calls |-> <<d>> \o r.calls, failed |-> r.failed]
    ELSE [err    |-> IF LeafLogFails(d, failing) THEN LogErr(d) ELSE NoErr,
          calls  |-> <<d>>,
          failed |-> IF LeafLogFails(d, failing) THEN {d} ELSE {}]

\* stackClose that returns at the first member failure
RECURSIVE stackCloseStop(_, _, _, _)
stackCloseStop(drivers, i, failing, acc) ==
    IF i > Len(drivers) THEN acc
    ELSE
        LET driver == drivers[i]
            fails == LeafCloseFails(driver, failing)
            next == [err    |-> IF fails THEN CloseErr(driver) ELSE acc.err,
                     calls  |-> Append(acc.calls, driver),
                     failed |-> IF fails THEN acc.failed \cup {driver} ELSE acc.failed]
        IN
        IF fails THEN next ELSE stackCloseStop(drivers, i + 1, failing, next)

\* the loop of StackDriver.Close
RECURSIVE stackClose(_, _, _, _)
stackClose(drivers, i, failing, acc) ==
    IF i > Len(drivers) THEN acc
    ELSE
        LET driver == drivers[i]
            fails == LeafCloseFails(driver, failing)
        IN
        stackClose(drivers, i + 1, failing,
                   [err    |-> IF fails THEN CloseErr(driver) ELSE acc.err,
                    calls  |-> Append(acc.calls, driver),
                    failed |-> IF fails THEN acc.failed \cup {driver} ELSE acc.failed])

StackDriverClose(d, failing) ==
    stackClose(drvs[d].drivers, 1, failing, [err |-> NoErr, calls |-> <<>>, failed |-> {}])

\* driver.Close() for any driver d
DriverClose(d, failing) ==
    IF drvs[d].kind = "stack"
    THEN LET r == StackDriverClose(d, failing) IN
         [err |-> r.err, calls |-> <<d>> \o r.calls, failed |-> r.failed]
    ELSE [err    |-> IF LeafCloseFails(d, failing) THEN CloseErr(d) ELSE NoErr,
          calls  |-> <<d>>,
          failed |-> IF LeafCloseFails(d, failing) THEN {d} ELSE {}]

\* closeLoop that returns at the first driver whose Close fails
RECURSIVE closeLoopStop(_, _, _, _)
closeLoopStop(order, i, failing, acc) ==
    IF i > Len(order) THEN acc
    ELSE
        LET ch == chans[channels[order[i]]]
            r == DriverClose(ch.driver, failing)
            next == [err    |-> IF r.err # NoErr THEN r.err ELSE acc.err,
                     calls  |-> acc.calls \o r.calls,
                     failed |-> acc.failed \cup r.failed]
        IN
        IF r.err # NoErr THEN next ELSE closeLoopStop(order, i + 1, failing, next)

\* the loop of Manager.Close over the cache, in the order the map iteration
\* happens to take
RECURSIVE closeLoop(_, _, _, _)
closeLoop(order, i, failing, acc) ==
    IF i > Len(order) THEN acc
    ELSE
        LET ch == chans[channels[order[i]]]
            r == DriverClose(ch.driver, failing)
        IN
        closeLoop(order, i + 1, failing,
                  [err    |-> IF r.err # NoErr THEN r.err ELSE acc.err,
                   calls  |-> acc.calls \o r.calls,
                   failed |-> acc.failed \cup r.failed])

\* the orders in which a Go map with key set S can be iterated
Orders(S) ==
    {o \in [1..Cardinality(S) -> S] : \A i, j \in 1..Cardinality(S) : o[i] = o[j] => i = j}

\* how often driver d occurs in a sequence of calls
Count(calls, d) == Cardinality({i \in 1..Len(calls) : calls[i] = d})

-----------------------------------------------------------------------------
(* What a call returned and did *)

Entry(level, channel, context, exception) ==
    [Level |-> level, Channel |-> channel, Context |-> context, Exception |-> exception]

NoEntry == Entry(-1, "", EmptyCtx, FALSE)

\* op: the call; name: its channel name argument (for an emit: the method); err: the error of Channel or
\* Default; logger: the Logger returned (or the receiver of an emit); built:
\* the drivers the call constructed; level: the level of an emit; derr: the
\* error the driver's Log or Close returned; calls: the drivers whose Log or
\* Close was invoked, in order; failed: those that returned an error; entry:
\* the entry handed to the driver (for ShareContext: its argument); broken:
\* the channel names whose file could not be opened during the call; parent:
\* the receiver of WithContext, With or WithoutContext; args: the context maps
\* (for WithoutContext: the keys) the call was given
Ret(op) ==
    [op |-> op, name |-> "", err |-> "nil", logger |-> 0, built |-> <<>>,
     level |-> 0, derr |-> NoErr, calls |-> <<>>, failed |-> {}, entry |-> NoEntry,
     broken |-> {}, parent |-> 0, args |-> <<>>]

-----------------------------------------------------------------------------
(* State after NewManager(config) *)

Threads == {1, 2}

Idle == [pc |-> "idle", name |-> "", ch |-> 0]

\* a thread outside FileDriver.Log: n counts the Log calls it has begun
NotLogging == [pc |-> "idle", driver |-> 0, n |-> 0]

\* the package variables before Init: defaultManager is "nil" or "manager",
\* once is whether once.Do has run
NoGlobal == [defaultManager |-> "nil", once |-> FALSE]

\* the registry, the heaps and the drivers' files and exchanges at the start,
\* and a Manager that has constructed nothing
InitHeaps ==
    /\ driverFactories = BuiltinFactories
    /\ channels = [n \in {} |-> 0]
    /\ defaultChannel = "file"
    /\ sharedContext = EmptyCtx
    /\ chans = <<>>
    /\ drvs = <<>>
    /\ loggers = <<>>
    /\ threads = [t \in Threads |-> Idle]
    /\ history = [shared |-> {}, fresh |-> {}]
    /\ mu = {}
    /\ written = <<>>
    /\ writers = [t \in Threads |-> NotLogging]
    /\ inflight = {}
    /\ sends = <<>>
    /\ golog = NoGlobal

\* a Manager made by NewManager(config), the package variables left alone
InitObjects == config \in Configs /\ InitHeaps

Init == InitObjects /\ ret = Ret("NewManager")

-----------------------------------------------------------------------------
(* Manager *)

\* the member channels of name whose file the environment can make unopenable
Breakable(name) ==
    IF name \notin DOMAIN config THEN {}
    ELSE IF config[name].Driver = "stack"
    THEN {config[name].Channels[i] : i \in 1..Len(config[name].Channels)}
    ELSE {name}

\* the driver identities a call added to the driver heap
Built(before, after) == [i \in 1..(Len(after) - Len(before)) |-> Len(before) + i]

\* CacheInsert that forgets the new channel
CacheInsertNothing(cache, name, ch) == cache

\* m.channels[name] = ch
CacheInsert(cache, name, ch) ==
    [n \in (DOMAIN cache) \cup {name} |-> IF n = name THEN ch ELSE cache[n]]

\* Manager.Channel(name) run by one caller without interference; op is
\* "Channel", or "Default" when called through Manager.Default
ChannelCall(op, name) ==
    /\ Len(loggers) < MaxLoggers
    /\ IF name \in DOMAIN channels
       THEN /\ loggers' = Append(loggers, NewLogger(channels[name], chans))
            /\ ret' = [Ret(op) EXCEPT !.name = name, !.logger = Len(loggers) + 1]
            /\ UNCHANGED <<channels, chans, drvs>>
       ELSE \E broken \in SUBSET Breakable(name) :
            LET r == createChannel(name, broken) IN
            /\ Len(r.heap) <= MaxDrivers
            /\ drvs' = r.heap
            /\ IF r.err # "nil"
               THEN /\ ret' = [Ret(op) EXCEPT !.name = name, !.err = r.err,
                                              !.built = Built(drvs, r.heap),
                                              !.broken = broken]
                    /\ UNCHANGED <<channels, chans, loggers>>
               ELSE /\ chans' = Append(chans, r.channel)
                    /\ channels' = CacheInsert(channels, name, Len(chans) + 1)
                    /\ loggers' = Append(loggers, NewLogger(Len(chans) + 1, chans'))
                    /\ ret' = [Ret(op) EXCEPT !.name = name, !.logger = Len(loggers) + 1,
                                              !.built = Built(drvs, r.heap),
                                              !.broken = broken]
    /\ UNCHANGED <<golog, driverIO, config, driverFactories, defaultChannel, sharedContext, threads,
                   history>>

Channel == \E name \in ChannelNames : ChannelCall("Channel", name)

\* Channel for the names whose construction can succeed
ChannelOk == \E name \in {"file", "errors", "stack"} : ChannelCall("Channel", name)

\* Channel for the file channels
ChannelFile == \E name \in {"file", "errors"} : ChannelCall("Channel", name)

Default == ChannelCall("Default", defaultChannel)

\* the names callers pass to SetDefault
DefaultNames == {"file", "stack", "missing"}

\* SetDefaultName that keeps the old name when the new one is not configured
SetDefaultValidated(old, name) == IF name \in DOMAIN config THEN name ELSE old

\* m.defaultChannel = name
SetDefaultName(old, name) == name

\* Manager.SetDefault(name) for the given names
SetDefaultOf(names) ==
    \E name \in names :
        /\ defaultChannel' = SetDefaultName(defaultChannel, name)
        /\ ret' = [Ret("SetDefault") EXCEPT !.name = name]
        /\ UNCHANGED <<golog, driverIO, config, driverFactories, channels, sharedContext, chans, drvs,
                       loggers, threads, history>>

SetDefault == SetDefaultOf(DefaultNames)

\* SetDefault with the name of the stack channel
SetDefaultStack == SetDefaultOf({"stack"})

\* the cached channels of a cache
Cached(cache) == {cache[n] : n \in DOMAIN cache}

\* PatchChannels that puts a new channel of level info in the place of each
\* cached one
PatchChannelsRebuilt(heap, cache, ctx) ==
    [c \in DOMAIN heap |->
        IF c \in Cached(cache)
        THEN [LogChannel(heap[c].name, heap[c].driver, InfoLevel)
                 EXCEPT !.ctx = Overlay(heap[c].ctx, ctx)]
        ELSE heap[c]]

\* Manager.ShareContext's effect on the channel heap: every cached channel's
\* context is patched in place
PatchChannels(heap, cache, ctx) ==
    [c \in DOMAIN heap |->
        IF c \in Cached(cache)
        THEN [heap[c] EXCEPT !.ctx = Overlay(heap[c].ctx, ctx)]
        ELSE heap[c]]

\* Manager.ShareContext(ctx) for the given argument maps
ShareContextOf(inputs) ==
    \E ctx \in inputs :
        /\ sharedContext' = Overlay(sharedContext, ctx)
        /\ chans' = PatchChannels(chans, channels, ctx)
        /\ ret' = [Ret("ShareContext") EXCEPT !.entry = Entry(-1, "", ctx, FALSE)]
        /\ history' = [shared |-> history.shared \cup DOMAIN ctx,
                       fresh  |-> history.fresh \cup DOMAIN ctx]
        /\ UNCHANGED <<golog, driverIO, config, driverFactories, channels, defaultChannel, drvs, loggers,
                       threads>>

ShareContext == ShareContextOf(CtxInputs)

\* ShareContext with a map of one key
ShareContextEnv == ShareContextOf({[k \in {"env"} |-> "v1"]})

\* Flushed that keeps the map
FlushedNothing(ctx) == ctx

\* m.sharedContext = make(map[string]any)
Flushed(ctx) == EmptyCtx

FlushSharedContext ==
    /\ sharedContext' = Flushed(sharedContext)
    /\ ret' = Ret("FlushSharedContext")
    /\ history' = [history EXCEPT !.fresh = {}]
    /\ UNCHANGED <<golog, driverIO, config, driverFactories, channels, defaultChannel, chans, drvs,
                   loggers, threads>>

\* Registered that keeps the binding a kind already has
RegisteredIfAbsent(registry, name, factory) ==
    [k \in (DOMAIN registry) \cup {name} |->
        IF k \in DOMAIN registry THEN registry[k] ELSE factory]

\* driverFactories[name] = factory
Registered(registry, name, factory) ==
    [k \in (DOMAIN registry) \cup {name} |-> IF k = name THEN factory ELSE registry[k]]

\* RegisterDriver(name, factory) for the given kinds and factories; ret.args
\* holds the factory
RegisterWith(kinds, factories) ==
    \E name \in kinds, factory \in factories :
        /\ driverFactories' = Registered(driverFactories, name, factory)
        /\ ret' = [Ret("RegisterDriver") EXCEPT !.name = name, !.args = <<factory>>]
        /\ UNCHANGED <<golog, driverIO, config, channels, defaultChannel, sharedContext, chans, drvs,
                       loggers, threads, history>>

\* RegisterDriver(name, factory) with a factory of the caller, for the given kinds
RegisterDriverOf(kinds) == RegisterWith(kinds, {"NewMockDriver"})

\* RegisterDriver of the caller's factory and of the built-in ones, for a
\* built-in kind and for the kind of the channel "custom"
RegisterAny ==
    RegisterWith({"file", "unsupported"},
                 {"NewMockDriver", "NewFileDriver", "NewSlackDriver"})

\* RegisterDriver for the built-in kind file: later file channels get the
\* caller's driver
RegisterDriver == RegisterDriverOf({"file"})

\* the drivers Manager.Close reaches
CloseLeaves == UNION {Leaves(chans[c].driver) : c \in Cached(channels)}

\* the driver heap after Close was invoked on the drivers of calls
Closed(heap, calls) ==
    [d \in DOMAIN heap |-> [heap[d] EXCEPT !.closes = @ + Count(calls, d)]]

\* Running in which Close waits for the goroutines of the drivers it closes
RunningJoined(goroutines, calls) ==
    {g \in goroutines : \A i \in 1..Len(calls) : calls[i] # g.driver}

\* the goroutines still to send after Close was invoked on the drivers of
\* calls: SlackDriver.Close returns nil and waits for nothing
Running(goroutines, calls) == goroutines

\* Manager.Close
CloseManager ==
    \E order \in Orders(DOMAIN channels), failing \in SUBSET CloseLeaves :
        LET r == closeLoop(order, 1, failing,
                           [err |-> NoErr, calls |-> <<>>, failed |-> {}]) IN
        /\ drvs' = Closed(drvs, r.calls)
        /\ channels' = [n \in {} |-> 0]
        /\ ret' = [Ret("Close") EXCEPT !.derr = r.err, !.calls = r.calls,
                                       !.failed = r.failed]
        /\ inflight' = Running(inflight, r.calls)
        /\ UNCHANGED <<config, driverFactories, defaultChannel, sharedContext, chans,
                       loggers, threads, history, mu, written, writers, sends>>

\* Manager.Close on a Manager of the caller
Close == CloseManager /\ UNCHANGED golog

-----------------------------------------------------------------------------
(* Logger *)

\* the emit methods: the level each passes to log or logWithError, and
\* whether it is a WithException variant; Log takes its level from the caller
Methods ==
    [ Debug     |-> [level |-> DebugLevel,     exception |-> FALSE],
      Info      |-> [level |-> InfoLevel,      exception |-> FALSE],
      Notice    |-> [level |-> NoticeLevel,    exception |-> FALSE],
      Warning   |-> [level |-> WarningLevel,   exception |-> FALSE],
      Error     |-> [level |-> ErrorLevel,     exception |-> FALSE],
      Critical  |-> [level |-> CriticalLevel,  exception |-> FALSE],
      Alert     |-> [level |-> AlertLevel,     exception |-> FALSE],
      Emergency |-> [level |-> EmergencyLevel, exception |-> FALSE],
      ErrorWithException     |-> [level |-> ErrorLevel,     exception |-> TRUE],
      CriticalWithException  |-> [level |-> CriticalLevel,  exception |-> TRUE],
      AlertWithException     |-> [level |-> AlertLevel,     exception |-> TRUE],
      EmergencyWithException |-> [level |-> EmergencyLevel, exception |-> TRUE] ]

\* the calls of the emit methods: the method and the level it logs at; the
\* WithException variants are called with a non-nil error, so that WithError
\* attaches an exception
EmitCalls ==
    {[method |-> m, level |-> Methods[m].level, exception |-> Methods[m].exception] :
        m \in DOMAIN Methods}
    \cup {[method |-> "Log", level |-> lv, exception |-> FALSE] : lv \in Levels}

\* the variadic context arguments of an emit call
CallContexts ==
    {<<>>} \cup {<<c>> : c \in CtxInputs} \cup {<<c, d>> : c, d \in CtxInputs}

\* what mergeContext makes of them: the context log and logWithError start from
MergedContexts == {mergeContext(contexts) : contexts \in CallContexts}

\* BelowMinimum with the comparison off by one
BelowOrAtMinimum(level, minimum) == level <= minimum

\* the check that opens Logger.log and Logger.logWithError
BelowMinimum(level, minimum) == level < minimum

\* BuildEntry that reads the channel's and the Manager's context at emit time
\* instead of the Logger's own copy
BuildEntryLive(l, level, exception, context) ==
    Entry(level, chans[loggers[l].channel].name,
          Overlay(Overlay(chans[loggers[l].channel].ctx, SharedContext), context),
          exception)

\* the entry log and logWithError build for Logger l
BuildEntry(l, level, exception, context) ==
    Entry(level, chans[loggers[l].channel].name,
          Overlay(Overlay(EmptyCtx, loggers[l].ctx), context), exception)

\* an emit method that hands the driver's error to its caller
Propagated(err) == IF err = NoErr THEN "nil" ELSE "driver failed"

\* _ = l.channel.driver.Log(entry): what the emit method lets its caller see
\* of the error the driver returned
Discarded(err) == "nil"

\* Logger.log / Logger.logWithError behind the emit methods, for the given
\* calls and variadic context arguments
EmitWith(calls, contextArgs) ==
    \E l \in DOMAIN loggers, call \in calls, contexts \in contextArgs :
        LET channel == chans[loggers[l].channel]
            ctx == mergeContext(contexts)
            op == IF call.exception THEN "logWithError" ELSE "log"
        IN
        /\ IF BelowMinimum(call.level, channel.level)
           THEN ret' = [Ret(op) EXCEPT !.name = call.method, !.logger = l,
                                       !.level = call.level, !.args = contexts]
           ELSE \E failing \in SUBSET Leaves(channel.driver) :
                LET entry == BuildEntry(l, call.level, call.exception, ctx)
                    r == DriverLog(channel.driver, failing)
                IN
                ret' = [Ret(op) EXCEPT !.name = call.method, !.logger = l,
                                       !.level = call.level, !.derr = r.err,
                                       !.err = Discarded(r.err),
                                       !.calls = r.calls, !.failed = r.failed,
                                       !.entry = entry, !.args = contexts]
        /\ UNCHANGED <<golog, driverIO, config, driverFactories, channels, defaultChannel, sharedContext,
                       chans, drvs, loggers, threads, history>>

\* every emit method at every level, without call-site context
EmitLevels == EmitWith(EmitCalls, {<<>>})

\* Info, Log(ErrorLevel) and ErrorWithException, without call-site context
SomeCalls ==
    {c \in EmitCalls : c.method \in {"Info", "ErrorWithException"}
                       \/ (c.method = "Log" /\ c.level = ErrorLevel)}

Emit == EmitWith(SomeCalls, {<<>>})

\* Info with every combination of call-site context maps
EmitContexts == EmitWith({c \in EmitCalls : c.method = "Info"}, CallContexts)

\* the Logger WithContext returns, with the receiver's keys beating the argument's
LoggerWithContextKeep(l, ctx) ==
    [channel |-> loggers[l].channel,
     ctx     |-> Overlay(Overlay(EmptyCtx, ctx), loggers[l].ctx)]

\* the Logger that Logger.WithContext(ctx) returns for receiver l
LoggerWithContext(l, ctx) ==
    [channel |-> loggers[l].channel,
     ctx     |-> Overlay(Overlay(EmptyCtx, loggers[l].ctx), ctx)]

\* Delete that stops after the first key
DeleteFirst(c, keys) ==
    [k \in (DOMAIN c) \ {keys[1]} |-> c[k]]

\* for _, key := range keys { delete(newCtx, key) }
Delete(c, keys) ==
    [k \in (DOMAIN c) \ {keys[i] : i \in 1..Len(keys)} |-> c[k]]

\* the Logger that Logger.WithoutContext(keys...) returns for receiver l
LoggerWithoutContext(l, keys) ==
    [channel |-> loggers[l].channel,
     ctx     |-> Delete(Overlay(EmptyCtx, loggers[l].ctx), keys)]

\* Returned that stores the new Logger over the receiver as well
ReturnedInPlace(heap, l, new) == Append([heap EXCEPT ![l] = new], new)

\* the Logger heap after receiver l returned the freshly allocated Logger new
Returned(heap, l, new) == Append(heap, new)

\* Logger.WithContext(ctx), also reached through Logger.With
WithContextCall(method, l, ctx) ==
    /\ Len(loggers) < MaxViews
    /\ loggers' = Returned(loggers, l, LoggerWithContext(l, ctx))
    /\ ret' = [Ret("WithContext") EXCEPT !.name = method, !.parent = l,
                                         !.logger = Len(loggers) + 1, !.args = <<ctx>>]
    /\ UNCHANGED <<golog, driverIO, config, driverFactories, channels, defaultChannel, sharedContext,
                   chans, drvs, threads, history>>

WithContext == \E l \in DOMAIN loggers, ctx \in CtxInputs : WithContextCall("WithContext", l, ctx)

\* Logger.With(key, value): WithContext(map[string]any{key: value})
With ==
    \E l \in DOMAIN loggers, key \in Keys, value \in {"v1"} :
        WithContextCall("With", l, [k \in {key} |-> value])

\* the keys callers pass to WithoutContext: one bound or not, both, one twice
KeyLists == {<<"env">>, <<"env", "user">>, <<"user", "user">>}

WithoutContext ==
    \E l \in DOMAIN loggers, keys \in KeyLists :
        /\ Len(loggers) < MaxViews
        /\ loggers' = Returned(loggers, l, LoggerWithoutContext(l, keys))
        /\ ret' = [Ret("WithoutContext") EXCEPT !.name = "WithoutContext", !.parent = l,
                                                !.logger = Len(loggers) + 1,
                                                !.args = keys]
        /\ UNCHANGED <<golog, driverIO, config, driverFactories, channels, defaultChannel, sharedContext,
                       chans, drvs, threads, history>>

-----------------------------------------------------------------------------
(* The Manager and its Loggers used by one caller at a time *)

Next ==
    \/ Channel
    \/ Close
    \/ Emit

Spec == Init /\ [][Next]_vars

-----------------------------------------------------------------------------
(* Emitting at every level through channels of different minimum levels *)

\* a Manager constructed with the configuration whose stack is strict
InitPlain == Init /\ config = ConfigWith(FALSE)

\* Channel for a file channel of minimum level error and for the stack
ChannelLeveled == \E name \in {"errors", "stack"} : ChannelCall("Channel", name)

NextLevels ==
    \/ ChannelLeveled
    \/ EmitLevels

SpecLevels == InitPlain /\ [][NextLevels]_vars

-----------------------------------------------------------------------------
(* Shared context, channel context and Logger snapshots *)

NextContext ==
    \/ ChannelFile
    \/ ShareContext
    \/ FlushSharedContext
    \/ Close

SpecContext == InitPlain /\ [][NextContext]_vars

\* Loggers of one channel across ShareContext, FlushSharedContext and Close
ChannelApp == ChannelCall("Channel", "file")

NextSnapshot ==
    \/ ChannelApp
    \/ ShareContext
    \/ FlushSharedContext
    \/ Close

SpecSnapshot == InitPlain /\ [][NextSnapshot]_vars

-----------------------------------------------------------------------------
(* The default channel, the registry and the channels constructed so far *)

NextManager ==
    \/ ChannelApp
    \/ Default
    \/ SetDefaultStack
    \/ ShareContextEnv
    \/ FlushSharedContext
    \/ RegisterDriver
    \/ Close

SpecManager == InitPlain /\ [][NextManager]_vars

-----------------------------------------------------------------------------
(* Default and SetDefault *)

NextDefault ==
    \/ ChannelOk
    \/ Default
    \/ SetDefault

SpecDefault == InitPlain /\ [][NextDefault]_vars

-----------------------------------------------------------------------------
(* Loggers derived from a Logger, and what they emit *)

NextLogger ==
    \/ ChannelApp
    \/ WithContext
    \/ With
    \/ WithoutContext
    \/ EmitContexts

SpecLogger == InitPlain /\ [][NextLogger]_vars

-----------------------------------------------------------------------------
(* Manager.Channel called by several threads: the steps between which the  *)
(* Manager's lock is released                                               *)

\* the threads inside Manager.Channel
Busy == {t \in Threads : threads[t].pc # "idle"}

\* m.mu.RLock(); ch, exists := m.channels[name]; m.mu.RUnlock()
ChannelLookup(t) ==
    \E name \in {"file", "stack", "missing"} :
        /\ threads[t].pc = "idle"
        /\ Len(loggers) + Cardinality(Busy) < MaxLoggers
        /\ threads' = [threads EXCEPT ![t] =
                          IF name \in DOMAIN channels
                          THEN [pc |-> "logger", name |-> name, ch |-> channels[name]]
                          ELSE [pc |-> "create", name |-> name, ch |-> 0]]
        /\ UNCHANGED <<golog, driverIO, config, driverFactories, channels, defaultChannel, sharedContext,
                       chans, drvs, loggers, ret, history>>

\* ch, err := m.createChannel(name), outside the lock
ChannelCreate(t) ==
    \E broken \in SUBSET Breakable(threads[t].name) :
        LET r == createChannel(threads[t].name, broken) IN
        /\ threads[t].pc = "create"
        /\ Len(r.heap) <= MaxDrivers
        /\ drvs' = r.heap
        /\ IF r.err # "nil"
           THEN /\ threads' = [threads EXCEPT ![t] = Idle]
                /\ ret' = [Ret("Channel") EXCEPT !.name = threads[t].name, !.err = r.err,
                                                 !.built = Built(drvs, r.heap),
                                                 !.broken = broken]
                /\ chans' = chans
           ELSE /\ chans' = Append(chans, r.channel)
                /\ threads' = [threads EXCEPT ![t].pc = "insert", ![t].ch = Len(chans) + 1]
                /\ ret' = ret
        /\ UNCHANGED <<golog, driverIO, config, driverFactories, channels, defaultChannel, sharedContext,
                       loggers, history>>

\* m.mu.Lock(); m.channels[name] = ch; m.mu.Unlock()
ChannelInsert(t) ==
    /\ threads[t].pc = "insert"
    /\ channels' = CacheInsert(channels, threads[t].name, threads[t].ch)
    /\ threads' = [threads EXCEPT ![t].pc = "logger"]
    /\ UNCHANGED <<golog, driverIO, config, driverFactories, defaultChannel, sharedContext, chans, drvs,
                   loggers, ret, history>>

\* return NewLogger(ch, m), nil
ChannelReturn(t) ==
    /\ threads[t].pc = "logger"
    /\ loggers' = Append(loggers, NewLogger(threads[t].ch, chans))
    /\ ret' = [Ret("Channel") EXCEPT !.name = threads[t].name,
                                     !.logger = Len(loggers) + 1]
    /\ threads' = [threads EXCEPT ![t] = Idle]
    /\ UNCHANGED <<golog, driverIO, config, driverFactories, channels, defaultChannel, sharedContext,
                   chans, drvs, history>>

NextConc ==
    \E t \in Threads :
        \/ ChannelLookup(t)
        \/ ChannelCreate(t)
        \/ ChannelInsert(t)
        \/ ChannelReturn(t)

SpecConc == Init /\ [][NextConc]_vars

-----------------------------------------------------------------------------
(* FileDriver.Log called by several threads on the drivers of the file     *)
(* channels. A record reaches the file in two parts, the header line and   *)
(* the lines after it.                                                      *)

\* the FileDrivers constructed so far
FileDrivers == {d \in DOMAIN drvs : drvs[d].kind = "file"}

\* Locked that finds every mutex free
LockedNever(m, d) == FALSE

\* whether d.mu of FileDriver d is held
Locked(m, d) == d \in m

\* the threads between d.mu.Lock() and the deferred d.mu.Unlock()
Logging == {t \in Threads : writers[t].pc # "idle"}

\* the FileDriver.Log calls begun so far
RECURSIVE Begun(_)
Begun(T) ==
    IF T = {} THEN 0
    ELSE LET t == CHOOSE x \in T : TRUE IN writers[t].n + Begun(T \ {t})

\* d.mu.Lock(); defer d.mu.Unlock()
FileLogLock(t) ==
    \E d \in FileDrivers :
        /\ writers[t].pc = "idle"
        /\ Begun(Threads) < MaxCalls
        /\ ~Locked(mu, d)
        /\ mu' = mu \cup {d}
        /\ writers' = [writers EXCEPT ![t] = [pc |-> "format", driver |-> d, n |-> @.n + 1]]
        /\ UNCHANGED <<golog, config, driverFactories, channels, defaultChannel, sharedContext,
                       chans, drvs, loggers, ret, threads, history, written, inflight,
                       sends>>

\* formatted := d.format(entry)
FileLogFormat(t) ==
    /\ writers[t].pc = "format"
    /\ writers' = [writers EXCEPT ![t].pc = "write"]
    /\ UNCHANGED <<golog, config, driverFactories, channels, defaultChannel, sharedContext,
                   chans, drvs, loggers, ret, threads, history, mu, written, inflight,
                   sends>>

\* the part of its record that thread t writes next
Part(t) == [driver |-> writers[t].driver, thread |-> t, n |-> writers[t].n,
            part |-> IF writers[t].pc = "write" THEN 1 ELSE 2]

\* d.file.WriteString(formatted), one part at a time
FileLogWrite(t) ==
    /\ writers[t].pc \in {"write", "written"}
    /\ written' = Append(written, Part(t))
    /\ writers' = [writers EXCEPT ![t].pc = IF @ = "write" THEN "written" ELSE "unlock"]
    /\ UNCHANGED <<golog, config, driverFactories, channels, defaultChannel, sharedContext,
                   chans, drvs, loggers, ret, threads, history, mu, inflight, sends>>

\* return err, and the deferred d.mu.Unlock()
FileLogUnlock(t) ==
    /\ writers[t].pc = "unlock"
    /\ mu' = mu \ {writers[t].driver}
    /\ writers' = [writers EXCEPT ![t].pc = "idle", ![t].driver = 0]
    /\ UNCHANGED <<golog, config, driverFactories, channels, defaultChannel, sharedContext,
                   chans, drvs, loggers, ret, threads, history, written, inflight,
                   sends>>

NextFile ==
    \/ ChannelFile
    \/ \E t \in Threads :
          \/ FileLogLock(t)
          \/ FileLogFormat(t)
          \/ FileLogWrite(t)
          \/ FileLogUnlock(t)

SpecFile == InitPlain /\ [][NextFile]_vars

-----------------------------------------------------------------------------
(* SlackDriver.Log, synchronous and asynchronous, and the goroutines it     *)
(* starts                                                                   *)

StatusOK == 200

\* the ways the exchange of client.Do can end: the transport fails, or a
\* response with a status code arrives
Statuses == {200, 201, 204, 299, 404, 500}

Outcomes ==
    {[failed |-> TRUE, status |-> 0]} \cup {[failed |-> FALSE, status |-> c] : c \in Statuses}

\* SlackDriver.send: the error it returns for an outcome of the exchange
send(outcome) ==
    IF outcome.failed THEN "failed to send slack message"
    ELSE IF outcome.status # StatusOK THEN "slack returned non-OK status"
    ELSE "nil"

\* the SlackDrivers constructed so far
SlackDrivers == {d \in DOMAIN drvs : drvs[d].kind = "slack"}

\* the Log calls made on SlackDrivers so far
SlackCalls == {sends[i].call : i \in 1..Len(sends)} \cup {g.call : g \in inflight}

\* Channel for the webhook channels
ChannelHook == \E name \in {"hook", "hookAsync"} : ChannelCall("Channel", name)

\* SlackDriver.Log(entry) on driver d, for the given outcomes of the exchange;
\* ret.level is the number of the call
SlackLogOf(outcomes) ==
    \E d \in SlackDrivers :
        LET call == Cardinality(SlackCalls) + 1 IN
        /\ call <= MaxCalls
        /\ IF drvs[d].async
           THEN /\ inflight' = inflight \cup {[call |-> call, driver |-> d]}
                /\ ret' = [Ret("SlackDriver.Log") EXCEPT !.calls = <<d>>, !.level = call]
                /\ sends' = sends
           ELSE \E outcome \in outcomes :
                /\ sends' = Append(sends, [call |-> call, driver |-> d,
                                           outcome |-> outcome, err |-> send(outcome)])
                /\ ret' = [Ret("SlackDriver.Log") EXCEPT
                              !.calls = <<d>>, !.level = call,
                              !.derr = IF send(outcome) = "nil" THEN NoErr ELSE LogErr(d)]
                /\ inflight' = inflight
        /\ UNCHANGED <<golog, config, driverFactories, channels, defaultChannel, sharedContext,
                       chans, drvs, loggers, threads, history, mu, written, writers>>

SlackLog == SlackLogOf(Outcomes)

\* the goroutines left after goroutine g called send, which sends again when
\* send failed
AfterSendRetry(goroutines, g, err) ==
    IF err = "nil" THEN goroutines \ {g} ELSE goroutines

\* the goroutines left after goroutine g called send and dropped its result
AfterSend(goroutines, g, err) == goroutines \ {g}

\* go func() { _ = d.send(msg) }(), for the given outcomes of the exchange
SlackSendOf(g, outcomes) ==
    \E outcome \in outcomes :
        /\ g \in inflight
        /\ sends' = Append(sends, [call |-> g.call, driver |-> g.driver,
                                   outcome |-> outcome, err |-> send(outcome)])
        /\ inflight' = AfterSend(inflight, g, send(outcome))
        /\ UNCHANGED <<golog, config, driverFactories, channels, defaultChannel, sharedContext,
                       chans, drvs, loggers, ret, threads, history, mu, written, writers>>

\* every goroutine a Log call can start
Goroutines == [call : 1..MaxCalls, driver : 1..MaxDrivers]

SlackSend == \E g \in Goroutines : SlackSendOf(g, Outcomes)

NextSlack ==
    \/ ChannelHook
    \/ SlackLog
    \/ SlackSend

SpecSlack == InitPlain /\ [][NextSlack]_vars

\* the exchange ending in 200, in another status, or in a transport failure
SomeOutcomes == {o \in Outcomes : o.failed \/ o.status \in {200, 500}}

\* Log on the asynchronous webhook channel and its goroutines; the Go
\* scheduler runs every goroutine that is ready, and client.Do returns
\* within the client's timeout
ChannelHookAsync == ChannelCall("Channel", "hookAsync")

SlackLogSome == SlackLogOf(SomeOutcomes)

SlackSendSome(g) == SlackSendOf(g, SomeOutcomes)

NextAsync ==
    \/ ChannelHookAsync
    \/ SlackLogSome
    \/ \E g \in Goroutines : SlackSendSome(g)

SpecAsync ==
    /\ InitPlain
    /\ [][NextAsync]_vars
    /\ \A g \in Goroutines : WF_vars(SlackSendSome(g))

-----------------------------------------------------------------------------
(* Manager.Close while goroutines of SlackDriver.Log have not sent yet *)

\* the exchange that ends with the status 200
Delivered == {[failed |-> FALSE, status |-> StatusOK]}

SlackLogDelivered == SlackLogOf(Delivered)

SlackSendDelivered(g) == SlackSendOf(g, Delivered)

NextShutdown ==
    \/ ChannelHookAsync
    \/ SlackLogDelivered
    \/ \E g \in Goroutines : SlackSendDelivered(g)
    \/ Close

SpecShutdown == InitPlain /\ [][NextShutdown]_vars

-----------------------------------------------------------------------------
(* The driver registry and the channels constructed through it *)

\* Channel for a file channel and for the channel of the caller's own kind
ChannelCustom == \E name \in {"file", "custom"} : ChannelCall("Channel", name)

NextRegistry ==
    \/ RegisterAny
    \/ ChannelCustom

SpecRegistry == InitPlain /\ [][NextRegistry]_vars

-----------------------------------------------------------------------------
(* Parsing level names *)

\* the names and aliases a caller may mean, each with its spelling
LevelSpellings ==
    [DEBUG |-> DEBUG, INFO |-> INFO, NOTICE |-> NOTICE, WARNING |-> WARNING,
     WARN |-> WARN, ERROR |-> ERROR, ERR |-> ERR, CRITICAL |-> CRITICAL,
     CRIT |-> CRIT, ALERT |-> ALERT, EMERGENCY |-> EMERGENCY, EMERG |-> EMERG]

\* strings that are no level name and no alias
OtherSpellings ==
    {<<>>,
     <<"T", "R", "A", "C", "E">>,
     <<"F", "A", "T", "A", "L">>,
     <<"W", "A", "R", "N", "I", "N">>,
     <<"W", "A", "R", "N", "S">>,
     <<"D", "E", " ", "B", "U", "G">>,
     <<"E", "M", "E", "R">>,
     <<"I", "N", "F">>,
     <<"E">>,
     <<"7">>,
     <<"D", "E", "B", "U", "G", "1">>,
     <<"N", "O", "T", "E">>,
     <<"E", "R", " ", "R", "O", "R">>}

\* the lower-case letter of each upper-case one
LowerCase ==
    [c \in {UpperCase[l] : l \in DOMAIN UpperCase} |->
        CHOOSE l \in DOMAIN UpperCase : UpperCase[l] = c]

\* w with the letters at the positions S in lower case
Cased(w, S) ==
    [i \in 1..Len(w) |->
        IF i \in S /\ w[i] \in DOMAIN LowerCase THEN LowerCase[w[i]] ELSE w[i]]

\* white space of at most MaxPad characters
Pads == UNION {[1..n -> Spaces] : n \in 0..MaxPad}

\* the strings given to ParseLevel: w in any letter case with white space
\* around it; name is the level name or alias that w is, "" if it is none
LevelInput(name, w) ==
    \E l \in Pads, S \in SUBSET (1..Len(w)), r \in Pads :
        ret = [Ret("input") EXCEPT !.name = name, !.args = l \o Cased(w, S) \o r]

InitParse ==
    /\ InitObjects
    /\ config = ConfigWith(FALSE)
    /\ \/ \E name \in DOMAIN LevelSpellings : LevelInput(name, LevelSpellings[name])
       \/ \E w \in OtherSpellings : LevelInput("", w)

\* ParseLevel(s)
ParseLevelCall ==
    /\ ret.op = "input"
    /\ ret' = [ret EXCEPT !.op = "ParseLevel", !.level = ParseLevel(ret.args)]
    /\ UNCHANGED <<golog, driverIO, config, driverFactories, channels, defaultChannel,
                   sharedContext, chans, drvs, loggers, threads, history>>

NextParse == ParseLevelCall

SpecParse == InitParse /\ [][NextParse]_vars

-----------------------------------------------------------------------------
(* A stack whose member is a stack *)

\* Channel for the stack over a stack, for that inner stack and for one of
\* its file channels
ChannelNested == \E name \in {"nested", "stack", "errors"} : ChannelCall("Channel", name)

NextNested ==
    \/ ChannelNested
    \/ Emit
    \/ Close

SpecNested == Init /\ [][NextNested]_vars

-----------------------------------------------------------------------------
(* Stacks whose member list names a channel that cannot be looked up *)

\* Channel for the stack with an unconfigured member, for the stack over a
\* stack, and for the stack over the two file channels
ChannelMembers ==
    \E name \in {"dangling", "nested", "stack"} : ChannelCall("Channel", name)

NextMembers ==
    \/ ChannelMembers
    \/ Emit
    \/ Close

SpecMembers == Init /\ [][NextMembers]_vars

-----------------------------------------------------------------------------
(* The record FileDriver.format makes of an entry. The record is the        *)
(* sequence of its lines; the timestamp of the header line is left out.     *)

\* Level.String()
LevelString(l) ==
    CASE l = DebugLevel     -> "DEBUG"
      [] l = InfoLevel      -> "INFO"
      [] l = NoticeLevel    -> "NOTICE"
      [] l = WarningLevel   -> "WARNING"
      [] l = ErrorLevel     -> "ERROR"
      [] l = CriticalLevel  -> "CRITICAL"
      [] l = AlertLevel     -> "ALERT"
      [] l = EmergencyLevel -> "EMERGENCY"
      [] OTHER              -> "UNKNOWN"

\* the context keys of the entries that are formatted, as character sequences
user_id == <<"u", "s", "e", "r", "_", "i", "d">>
action == <<"a", "c", "t", "i", "o", "n">>
IP == <<"I", "P">>

FormatKeys == {user_id, action, IP}

\* an ExceptionInfo; Trace is the sequence of its frames
ExceptionInfo(class, message, code, file, line, trace) ==
    [Class |-> class, Message |-> message, Code |-> code, File |-> file,
     Line |-> line, Trace |-> trace]

\* an Entry with its message; Exception is <<>> for nil and <<info>> otherwise
FullEntry(level, channel, message, context, exception) ==
    [Level |-> level, Channel |-> channel, Message |-> message, Context |-> context,
     Exception |-> exception]

\* "[%s] %s.%s: %s"
HeadLine(channel, level, message) ==
    [kind |-> "head", channel |-> channel, level |-> level, message |-> message]

\* "  %s: %v\n"
ContextLine(key, value) == [kind |-> "context", key |-> key, value |-> value]

\* the lines "    Class: ", "    Message: ", "    Code: " and "    File: "
ExceptionLine(field, value) == [kind |-> "exception", field |-> field, value |-> value]

\* "      #%d %s\n"
FrameLine(i, t) == [kind |-> "frame", index |-> i, text |-> t]

\* "      ... and %d more\n"
MoreLine(n) == [kind |-> "more", n |-> n]

\* the range loop over entry.Context in the iteration order keys
contextLines(context, keys) ==
    [i \in 1..Len(keys) |-> ContextLine(keys[i], context[keys[i]])]

\* the range loop over entry.Exception.Trace from index i on
RECURSIVE traceLines(_, _)
traceLines(trace, i) ==
    IF i >= Len(trace) THEN <<>>
    ELSE <<FrameLine(i, trace[i + 1])>>
         \o (IF i >= 10 THEN <<MoreLine(Len(trace) - 10)>>
             ELSE traceLines(trace, i + 1))

\* the exception block
exceptionLines(info) ==
    <<[kind |-> "Exception:"],
      ExceptionLine("Class", info.Class), ExceptionLine("Message", info.Message)>>
    \o (IF info.Code # 0 THEN <<ExceptionLine("Code", info.Code)>> ELSE <<>>)
    \o (IF info.File # "" THEN <<ExceptionLine("File", <<info.File, info.Line>>)>> ELSE <<>>)
    \o (IF Len(info.Trace) > 0 THEN <<[kind |-> "Trace:"]>> \o traceLines(info.Trace, 0)
        ELSE <<>>)

\* FileDriver.format(entry), the context map being iterated in the order keys
format(entry, keys) ==
    <<HeadLine(IF entry.Channel = "" THEN "local" ELSE entry.Channel,
               LevelString(entry.Level), entry.Message)>>
    \o contextLines(entry.Context, keys)
    \o (IF entry.Exception # <<>> THEN exceptionLines(entry.Exception[1]) ELSE <<>>)

\* the traces of the entries: frames 1 to n
Traces == {[i \in 1..n |-> i] : n \in 0..MaxFrames}

\* the entries given to the FileDriver: every level, with and without a
\* channel name, any context over FormatKeys, without an exception and with
\* one of any trace length
InitFormat ==
    /\ InitObjects
    /\ config = ConfigWith(FALSE)
    /\ \E level \in Levels, channel \in {"", "test"}, D \in SUBSET FormatKeys :
          \/ ret = [Ret("input") EXCEPT
                       !.entry = FullEntry(level, channel, "test message",
                                           [k \in D |-> "123"], <<>>)]
          \/ \E code \in {0, 42}, file \in {"", "main.go"}, trace \in Traces :
                ret = [Ret("input") EXCEPT
                          !.entry = FullEntry(level, channel, "test message",
                                              [k \in D |-> "123"],
                                              <<ExceptionInfo("errorString", "boom", code,
                                                              file, 7, trace)>>)]

\* formatted := d.format(entry); d.file.WriteString(formatted)
FileFormat ==
    /\ ret.op = "input"
    /\ \E order \in Orders(DOMAIN ret.entry.Context) :
          written' = format(ret.entry, order)
    /\ ret' = [ret EXCEPT !.op = "format"]
    /\ UNCHANGED <<golog, config, driverFactories, channels, defaultChannel, sharedContext,
                   chans, drvs, loggers, threads, history, mu, writers, inflight, sends>>

NextFormat == FileFormat

SpecFormat == InitFormat /\ [][NextFormat]_vars

-----------------------------------------------------------------------------
(* The package-level functions around the global Manager. While             *)
(* defaultManager is not nil, the variables of the Manager describe it.     *)

ErrNotInitialized == "golog: manager not initialized, call Init() first"

\* the configurations Init is called with
GlobalConfigs == [c1 |-> ConfigWith(FALSE), c2 |-> ConfigWith(TRUE)]

\* the channel configurations while no Manager has been made
NoConfig == [n \in {} |-> 0]

InitGlobal == config = NoConfig /\ InitHeaps /\ ret = Ret("start")

\* onceDo that runs its function on every call
onceDoAlways(done) == TRUE

\* once.Do(f): whether f is run
onceDo(done) == ~done

\* the test m != nil that finds a Manager whatever defaultManager is
InitializedAlways(g) == TRUE

\* m := GetManager(); m != nil
Initialized(g) == g.defaultManager # "nil"

\* the convenience functions and the name of the call in ret
GlobalFunctions ==
    [Debug |-> "golog.Debug", Info |-> "golog.Info", Notice |-> "golog.Notice",
     Warning |-> "golog.Warning", Error |-> "golog.Error",
     ErrorWithException |-> "golog.ErrorWithException",
     Critical |-> "golog.Critical",
     CriticalWithException |-> "golog.CriticalWithException",
     Alert |-> "golog.Alert", Emergency |-> "golog.Emergency"]

\* a convenience function has got its Logger from Default() and has not
\* called the emit method yet
InProgress ==
    /\ ret.err = "nil"
    /\ \E f \in DOMAIN GlobalFunctions : GlobalFunctions[f] = ret.op

\* a function that returns without touching anything
Untouched ==
    UNCHANGED <<golog, config, driverFactories, channels, defaultChannel, sharedContext,
                chans, drvs, loggers, threads, history, driverIO>>

\* Init(config)
GlobalInit ==
    \E c \in DOMAIN GlobalConfigs :
        /\ ~InProgress
        /\ IF onceDo(golog.once)
           THEN /\ config' = GlobalConfigs[c]
                /\ channels' = [n \in {} |-> 0]
                /\ defaultChannel' = "file"
                /\ sharedContext' = EmptyCtx
                /\ golog' = [defaultManager |-> "manager", once |-> TRUE]
           ELSE UNCHANGED <<config, channels, defaultChannel, sharedContext, golog>>
        /\ ret' = [Ret("golog.Init") EXCEPT !.name = c]
        /\ UNCHANGED <<driverFactories, chans, drvs, loggers, threads, history, driverIO>>

\* Channel(name)
GlobalChannel ==
    \E name \in {"file", "missing"} :
        /\ ~InProgress
        /\ IF Initialized(golog)
           THEN ChannelCall("golog.Channel", name)
           ELSE /\ ret' = [Ret("golog.Channel") EXCEPT !.name = name,
                                                       !.err = ErrNotInitialized]
                /\ Untouched

\* Default()
GlobalDefault ==
    /\ ~InProgress
    /\ IF Initialized(golog)
       THEN ChannelCall("golog.Default", defaultChannel)
       ELSE /\ ret' = [Ret("golog.Default") EXCEPT !.err = ErrNotInitialized]
            /\ Untouched

\* Close()
GlobalClose ==
    /\ ~InProgress
    /\ IF Initialized(golog)
       THEN /\ CloseManager
            /\ golog' = [golog EXCEPT !.defaultManager = "nil"]
       ELSE /\ ret' = Ret("golog.Close")
            /\ Untouched

\* ShareContext(ctx)
GlobalShareContext ==
    /\ ~InProgress
    /\ IF Initialized(golog)
       THEN ShareContextEnv
       ELSE /\ ret' = Ret("golog.ShareContext")
            /\ Untouched

\* Debug ... Emergency: log, err := Default(); ret.err is that error
GlobalEmit ==
    \E f \in DOMAIN GlobalFunctions :
        /\ ~InProgress
        /\ IF Initialized(golog)
           THEN ChannelCall(GlobalFunctions[f], defaultChannel)
           ELSE /\ ret' = [Ret(GlobalFunctions[f]) EXCEPT !.err = ErrNotInitialized]
                /\ Untouched

\* Debug ... Emergency: if err == nil, the emit method of the same name on log
GlobalEmitLog ==
    /\ InProgress
    /\ EmitWith({c \in EmitCalls : /\ c.method \in DOMAIN GlobalFunctions
                                   /\ GlobalFunctions[c.method] = ret.op}, {<<>>})
    /\ ret'.logger = ret.logger

NextGlobal ==
    \/ GlobalInit
    \/ GlobalChannel
    \/ GlobalDefault
    \/ GlobalClose
    \/ GlobalShareContext
    \/ GlobalEmit
    \/ GlobalEmitLog

SpecGlobal == InitGlobal /\ [][NextGlobal]_vars

-----------------------------------------------------------------------------
(* The calls of several threads on the global Manager, step by step: where  *)
(* m.mu and the package's mu are taken and released, and which fields are   *)
(* read and written in between. A sync.RWMutex admits no new reader while a *)
(* writer is blocked in Lock, and serves every blocked caller in the end.   *)

\* a thread inside the call op: name is its channel name argument, ch the
\* LogChannel it has got, ctx the context NewLogger has copied so far
At(pc, op, name, ch, ctx) == [pc |-> pc, op |-> op, name |-> name, ch |-> ch, ctx |-> ctx]

Outside == At("idle", "", "", 0, EmptyCtx)

\* the runtime has aborted the process (fatal error: concurrent map
\* iteration and map write)
Aborted == [t \in Threads |-> At("fatal", "", "", 0, EmptyCtx)]

InitLock ==
    /\ config = ConfigWith(FALSE)
    /\ driverFactories = BuiltinFactories
    /\ channels = [n \in {} |-> 0]
    /\ defaultChannel = "file"
    /\ sharedContext = EmptyCtx
    /\ chans = <<>>
    /\ drvs = <<>>
    /\ loggers = <<>>
    /\ ret = Ret("golog.Init")
    /\ threads = [t \in Threads |-> Outside]
    /\ history = [shared |-> {}, fresh |-> {}]
    /\ mu = {}
    /\ written = <<>>
    /\ writers = [t \in Threads |-> NotLogging]
    /\ inflight = {}
    /\ sends = <<>>
    /\ golog = [defaultManager |-> "manager", once |-> TRUE]

\* ReadHolding for a Channel that keeps the read lock until NewLogger is done
ReadHoldingThrough(pc) == pc \in {"lookup", "copy", "shared", "sharedRead"}

\* the positions at which a thread holds m.mu for reading
ReadHolding(pc) == pc \in {"lookup", "sharedRead"}

\* m.mu.RLock() returns for thread t: no writer holds m.mu or is blocked in Lock
CanRLock(t) == \A u \in Threads \ {t} : threads[u].pc \notin {"wait", "write"}

\* m.mu.Lock() returns for thread t: nobody else holds m.mu
CanLock(t) ==
    \A u \in Threads \ {t} : threads[u].pc # "write" /\ ~ReadHolding(threads[u].pc)

\* the threads inside Manager.Channel, each of which will allocate a Logger
\* and may allocate a LogChannel and a Driver
InChannel == {t \in Threads : threads[t].op \in {"Channel", "Default"}}

\* what is left unchanged by every step that only moves a thread
Moved ==
    UNCHANGED <<golog, driverIO, config, driverFactories, channels, defaultChannel,
                sharedContext, chans, drvs, loggers, ret, history>>

\* the heaps have room for one more Channel call
Room ==
    /\ Len(loggers) + Cardinality(InChannel) < MaxLookups
    /\ Len(drvs) + Cardinality(InChannel) < MaxDrivers

\* Manager.Channel(name) is called
BeginChannel(t) ==
    /\ threads[t].pc = "idle"
    /\ Room
    /\ threads' = [threads EXCEPT ![t] = At("enter", "Channel", "file", 0, EmptyCtx)]
    /\ Moved

\* Manager.Default() is called and starts to read m.defaultChannel
BeginDefault(t) ==
    /\ threads[t].pc = "idle"
    /\ Room
    /\ threads' = [threads EXCEPT ![t] = At("readDefault", "Default", "", 0, EmptyCtx)]
    /\ Moved

\* the names a read of m.defaultChannel by thread t can give: the field's
\* value, or, while another thread is writing the field, also the value being
\* written or a string made of parts of both
DefaultRead(t) ==
    {defaultChannel}
    \cup UNION {{threads[u].name, "torn"} :
                  u \in {v \in Threads \ {t} : threads[v].pc = "write"
                                               /\ threads[v].op = "SetDefault"}}

\* return m.Channel(m.defaultChannel): the read is done, Channel is entered
ReadDefault(t) ==
    \E name \in DefaultRead(t) :
        /\ threads[t].pc = "readDefault"
        /\ threads' = [threads EXCEPT ![t].pc = "enter", ![t].name = name]
        /\ Moved

\* m.mu.RLock() in Manager.Channel
ChannelRLock(t) ==
    /\ threads[t].pc = "enter"
    /\ CanRLock(t)
    /\ threads' = [threads EXCEPT ![t].pc = "lookup"]
    /\ Moved

\* ch, exists := m.channels[name]; m.mu.RUnlock()
ChannelRUnlock(t) ==
    /\ threads[t].pc = "lookup"
    /\ threads' = [threads EXCEPT ![t] =
                      IF threads[t].name \in DOMAIN channels
                      THEN [threads[t] EXCEPT !.pc = "copy",
                                              !.ch = channels[threads[t].name]]
                      ELSE [threads[t] EXCEPT !.pc = "create"]]
    /\ Moved

\* ch, err := m.createChannel(name), outside the lock, then m.mu.Lock() is
\* called
ChannelBuild(t) ==
    LET r == createChannel(threads[t].name, {}) IN
    /\ threads[t].pc = "create"
    /\ drvs' = r.heap
    /\ IF r.err # "nil"
       THEN /\ threads' = [threads EXCEPT ![t] = Outside]
            /\ chans' = chans
       ELSE /\ chans' = Append(chans, r.channel)
            /\ threads' = [threads EXCEPT ![t].pc = "wait", ![t].ch = Len(chans) + 1]
    /\ UNCHANGED <<golog, driverIO, config, driverFactories, channels, defaultChannel,
                   sharedContext, loggers, ret, history>>

\* Manager.SetDefault, ShareContext, FlushSharedContext or Close is called and
\* calls m.mu.Lock()
BeginWrite(t) ==
    \E op \in {"SetDefault", "ShareContext", "FlushSharedContext", "Close"} :
        /\ threads[t].pc = "idle"
        /\ threads' = [threads EXCEPT ![t] =
                          At("wait", op, IF op = "SetDefault" THEN "missing" ELSE "", 0,
                             EmptyCtx)]
        /\ Moved

\* m.mu.Lock() returns
WriteLock(t) ==
    /\ threads[t].pc = "wait"
    /\ CanLock(t)
    /\ threads' = [threads EXCEPT ![t].pc = "write"]
    /\ Moved

\* m.channels[name] = ch; m.mu.Unlock()
ChannelWrite(t) ==
    /\ threads[t].pc = "write"
    /\ threads[t].op \in {"Channel", "Default"}
    /\ channels' = CacheInsert(channels, threads[t].name, threads[t].ch)
    /\ threads' = [threads EXCEPT ![t].pc = "copy"]
    /\ UNCHANGED <<golog, driverIO, config, driverFactories, defaultChannel, sharedContext,
                   chans, drvs, loggers, ret, history>>

\* m.defaultChannel = name; m.mu.Unlock()
SetDefaultWrite(t) ==
    /\ threads[t].pc = "write"
    /\ threads[t].op = "SetDefault"
    /\ defaultChannel' = SetDefaultName(defaultChannel, threads[t].name)
    /\ threads' = [threads EXCEPT ![t] = Outside]
    /\ UNCHANGED <<golog, driverIO, config, driverFactories, channels, sharedContext,
                   chans, drvs, loggers, ret, history>>

\* the map given to ShareContext
Shared == [k \in {"env"} |-> "v1"]

\* the loops of ShareContext over ctx and over m.channels; m.mu.Unlock()
ShareContextWrite(t) ==
    /\ threads[t].pc = "write"
    /\ threads[t].op = "ShareContext"
    /\ sharedContext' = Overlay(sharedContext, Shared)
    /\ chans' = PatchChannels(chans, channels, Shared)
    /\ history' = [shared |-> history.shared \cup DOMAIN Shared,
                   fresh  |-> history.fresh \cup DOMAIN Shared]
    /\ threads' = [threads EXCEPT ![t] = Outside]
    /\ UNCHANGED <<golog, driverIO, config, driverFactories, channels, defaultChannel,
                   drvs, loggers, ret>>

\* m.sharedContext = make(map[string]any); m.mu.Unlock()
FlushWrite(t) ==
    /\ threads[t].pc = "write"
    /\ threads[t].op = "FlushSharedContext"
    /\ sharedContext' = Flushed(sharedContext)
    /\ history' = [history EXCEPT !.fresh = {}]
    /\ threads' = [threads EXCEPT ![t] = Outside]
    /\ UNCHANGED <<golog, driverIO, config, driverFactories, channels, defaultChannel,
                   chans, drvs, loggers, ret>>

\* the loop of Manager.Close, m.channels = make(...), m.mu.Unlock(); in the
\* package-level Close also defaultManager = nil and mu.Unlock()
CloseWrite(t) ==
    \E order \in Orders(DOMAIN channels) :
        LET r == closeLoop(order, 1, {}, [err |-> NoErr, calls |-> <<>>, failed |-> {}]) IN
        /\ threads[t].pc = "write"
        /\ threads[t].op \in {"Close", "golog.Close"}
        /\ drvs' = Closed(drvs, r.calls)
        /\ channels' = [n \in {} |-> 0]
        /\ golog' = IF threads[t].op = "golog.Close"
                    THEN [golog EXCEPT !.defaultManager = "nil"]
                    ELSE golog
        /\ threads' = [threads EXCEPT ![t] = Outside]
        /\ UNCHANGED <<driverIO, config, driverFactories, defaultChannel, sharedContext,
                       chans, loggers, ret, history>>

\* the contexts the loop of NewLogger over channel.ctx can copy for thread t:
\* the map as it is, or, while ShareContext is patching that map, also the
\* patched one
ChannelCopies(t) ==
    LET ctx == chans[threads[t].ch].ctx
        patching == \E u \in Threads \ {t} :
                       /\ threads[u].pc = "write"
                       /\ threads[u].op = "ShareContext"
                       /\ threads[t].ch \in Cached(channels)
    IN  [maps |-> {ctx} \cup (IF patching THEN {Overlay(ctx, Shared)} ELSE {}),
         race |-> patching]

\* NewLogger: for k, v := range channel.ctx { ctx[k] = v }, without a lock;
\* then manager.SharedContext() is called
LoggerCopy(t) ==
    LET c == ChannelCopies(t) IN
    /\ threads[t].pc = "copy"
    /\ \/ \E ctx \in c.maps :
             threads' = [threads EXCEPT ![t].pc = "shared",
                                        ![t].ctx = Overlay(EmptyCtx, ctx)]
       \/ c.race /\ threads' = Aborted
    /\ Moved

\* Manager.SharedContext() is called
BeginSharedContext(t) ==
    /\ threads[t].pc = "idle"
    /\ threads' = [threads EXCEPT ![t] = At("shared", "SharedContext", "", 0, EmptyCtx)]
    /\ Moved

\* m.mu.RLock() in Manager.SharedContext
SharedRLock(t) ==
    /\ threads[t].pc = "shared"
    /\ CanRLock(t)
    /\ threads' = [threads EXCEPT ![t].pc = "sharedRead"]
    /\ Moved

\* the copy loop of SharedContext and its deferred RUnlock; in NewLogger the
\* copy is laid over ctx and the Logger is returned
SharedRUnlock(t) ==
    /\ threads[t].pc = "sharedRead"
    /\ loggers' = IF threads[t].ch = 0 THEN loggers
                  ELSE Append(loggers, [channel |-> threads[t].ch,
                                        ctx |-> Overlay(threads[t].ctx, SharedContext)])
    /\ threads' = [threads EXCEPT ![t] = Outside]
    /\ UNCHANGED <<golog, driverIO, config, driverFactories, channels, defaultChannel,
                   sharedContext, chans, drvs, ret, history>>

\* the package-level Close is called and calls mu.Lock()
BeginGlobalClose(t) ==
    /\ threads[t].pc = "idle"
    /\ threads' = [threads EXCEPT ![t] = At("globalWait", "golog.Close", "", 0, EmptyCtx)]
    /\ Moved

\* mu.Lock() of the package returns; with a Manager, defaultManager.Close()
\* is called and calls m.mu.Lock(); without one, Close returns
GlobalLock(t) ==
    /\ threads[t].pc = "globalWait"
    /\ \A u \in Threads \ {t} :
          ~(threads[u].op = "golog.Close" /\ threads[u].pc \in {"wait", "write"})
    /\ threads' = [threads EXCEPT ![t] =
                      IF Initialized(golog) THEN [threads[t] EXCEPT !.pc = "wait"]
                      ELSE Outside]
    /\ Moved

\* the steps that take a call that has begun further
Continue(t) ==
    \/ ReadDefault(t)
    \/ ChannelRLock(t)
    \/ ChannelRUnlock(t)
    \/ ChannelBuild(t)
    \/ WriteLock(t)
    \/ ChannelWrite(t)
    \/ SetDefaultWrite(t)
    \/ ShareContextWrite(t)
    \/ FlushWrite(t)
    \/ CloseWrite(t)
    \/ LoggerCopy(t)
    \/ SharedRLock(t)
    \/ SharedRUnlock(t)
    \/ GlobalLock(t)

NextLock ==
    \E t \in Threads :
        \/ BeginChannel(t)
        \/ BeginDefault(t)
        \/ BeginWrite(t)
        \/ BeginSharedContext(t)
        \/ BeginGlobalClose(t)
        \/ Continue(t)

SpecLock == InitLock /\ [][NextLock]_vars

\* the scheduler runs every thread that can take a step, and a blocked Lock
\* or RLock is served in the end
SpecLockFair == SpecLock /\ \A t \in Threads : SF_vars(Continue(t))

-----------------------------------------------------------------------------
(* Properties *)

\* the last call was an emit on a Logger
EmitDone == ret.op \in {"log", "logWithError"}

\* the channel of the Logger of the last call
RetChannel == chans[loggers[ret.logger].channel]

\* the largest element of a non-empty set of numbers
Max(S) == CHOOSE x \in S : \A y \in S : y <= x

\* the error of the member that failed last in a sequence of calls
LastFailure(calls, failed, kind) ==
    IF {i \in 1..Len(calls) : calls[i] \in failed} = {} THEN NoErr
    ELSE [kind |-> kind,
          driver |-> calls[Max({i \in 1..Len(calls) : calls[i] \in failed})]]

\* C1: an emit at a level below the channel's minimum never invokes the
\* channel's Driver.Log; an emit at or above it invokes Driver.Log exactly once
\* with an entry of that level. Checked for every emit method (SpecLevels).
C1_LevelFilter ==
    EmitDone =>
        /\ ret.level < RetChannel.level =>
              ret.calls = <<>> /\ ret.entry = NoEntry
        /\ ret.level >= RetChannel.level =>
              /\ Count(ret.calls, RetChannel.driver) = 1
              /\ ret.entry.Level = ret.level
        /\ ret.name # "Log" => ret.level = Methods[ret.name].level

\* an ErrorWithException on a channel of minimum level error reached the driver
C1_Witness ==
    /\ EmitDone
    /\ ret.name = "ErrorWithException"
    /\ RetChannel.level = ErrorLevel
    /\ ret.calls = <<RetChannel.driver>>
    /\ ret.entry.Exception

\* Close has not been invoked on the driver of channel object c
Open(c) == drvs[chans[c].driver].closes = 0

\* C2: with no Close in between, two Channel calls with the same name return
\* Loggers bound to the identical Channel object, and only the first of them
\* constructs drivers.
C2_ChannelCached ==
    /\ \A l1, l2 \in DOMAIN loggers :
          ( /\ l1 < l2
            /\ chans[loggers[l1].channel].name = chans[loggers[l2].channel].name
            /\ Open(loggers[l1].channel) )
          => loggers[l1].channel = loggers[l2].channel
    /\ (ret.op = "Channel" /\ ret.err = "nil") =>
          ( ret.built = <<>>
            <=> \E l1 \in 1..(ret.logger - 1) :
                   loggers[l1].channel = loggers[ret.logger].channel )

\* the second Channel call for a name returned the cached channel and built nothing
C2_Witness ==
    /\ ret.op = "Channel"
    /\ ret.err = "nil"
    /\ ret.logger = 2
    /\ loggers[1].channel = loggers[2].channel
    /\ Open(loggers[1].channel)
    /\ ret.built = <<>>

\* C3: under concurrent Channel calls a channel name maps to at most one
\* Channel object: no two Channel objects are constructed for one name
\* (SpecConc, in which the Manager is never closed).
C3_OneChannelPerName ==
    \A c1, c2 \in DOMAIN chans : chans[c1].name = chans[c2].name => c1 = c2

\* the last call was an emit that reached a StackDriver
StackEmit == EmitDone /\ ret.calls # <<>> /\ drvs[ret.calls[1]].kind = "stack"

\* C4: StackDriver.Log with ignoreExceptions false invokes every member's Log
\* once, in order, and returns the failure of the last member that failed
\* (nil if none did).
C4_StackLogLastFailure ==
    (StackEmit /\ ~drvs[ret.calls[1]].ignoreExceptions) =>
        /\ Tail(ret.calls) = drvs[ret.calls[1]].drivers
        /\ ret.derr = LastFailure(Tail(ret.calls), ret.failed, "log")

\* the first member failed, the second was still invoked and did not fail
C4_Witness ==
    /\ StackEmit
    /\ ~drvs[ret.calls[1]].ignoreExceptions
    /\ Len(ret.calls) = 3
    /\ ret.failed = {ret.calls[2]}
    /\ ret.derr = LogErr(ret.calls[2])

\* C5: StackDriver.Log with ignoreExceptions true returns nil whatever its
\* members return, and invokes every member's Log once, in order.
C5_StackLogIgnore ==
    (StackEmit /\ drvs[ret.calls[1]].ignoreExceptions) =>
        /\ ret.derr = NoErr
        /\ Tail(ret.calls) = drvs[ret.calls[1]].drivers

\* a member failed, the other one received the entry, and Log returned nil
C5_Witness ==
    /\ StackEmit
    /\ drvs[ret.calls[1]].ignoreExceptions
    /\ Len(ret.calls) = 3
    /\ ret.failed = {ret.calls[2]}
    /\ ret.derr = NoErr

\* the last call was Channel for a name configured as a stack
StackCall ==
    /\ ret.op = "Channel"
    /\ ret.name \in DOMAIN config
    /\ config[ret.name].Driver = "stack"

\* the members of a stack configuration whose driver could be constructed
Constructible(cfg, broken) == SelectSeq(cfg.Channels, LAMBDA n : n \notin broken)

\* C6: constructing a Stack channel whose fan-out list would be empty (no
\* member configured, or no member's driver constructible) fails.
C6_EmptyStackFails ==
    (StackCall /\ Constructible(config[ret.name], ret.broken) = <<>>) => ret.err # "nil"

\* C7: when a member's driver constructor fails, Stack construction aborts
\* and caches nothing if ignoreExceptions is false; if it is true the fan-out
\* list is exactly the constructed members, in configured order.
C7_StackMemberFailure ==
    (StackCall /\ ret.broken # {}) =>
        IF ~config[ret.name].IgnoreExceptions
        THEN /\ ret.err = ErrCreateDriver
             /\ ret.logger = 0
             /\ ret.name \notin DOMAIN channels
        ELSE /\ ret.err = "nil"
             /\ LET stack == drvs[RetChannel.driver]
                    want == Constructible(config[ret.name], ret.broken)
                IN
                /\ stack.kind = "stack"
                /\ Len(stack.drivers) = Len(want)
                /\ \A i \in 1..Len(want) :
                      /\ drvs[stack.drivers[i]].kind = "file"
                      /\ drvs[stack.drivers[i]].path = config[want[i]].Path

\* the first member could not be constructed and the stack fans out to the second
C7_Witness ==
    /\ StackCall
    /\ config[ret.name].IgnoreExceptions
    /\ ret.broken = {config[ret.name].Channels[1]}
    /\ ret.err = "nil"
    /\ Len(drvs[RetChannel.driver].drivers) = 1

\* C8: StackDriver.Close invokes Close on every member once even when an
\* earlier member's Close fails, and returns the failure of the last failing
\* member, whatever ignoreExceptions is. The return value is observed when
\* the stack is the only channel Manager.Close closes.
C8_StackCloseAll ==
    ret.op = "Close" =>
        \A k \in 1..Len(ret.calls) :
            drvs[ret.calls[k]].kind = "stack" =>
                LET members == drvs[ret.calls[k]].drivers IN
                /\ k + Len(members) <= Len(ret.calls)
                /\ SubSeq(ret.calls, k + 1, k + Len(members)) = members
                /\ \A i \in 1..Len(members) : Count(ret.calls, members[i]) = 1
                /\ Len(ret.calls) = 1 + Len(members) =>
                      ret.derr = LastFailure(members, ret.failed, "close")

\* a stack that ignores exceptions was closed alone; its first member's Close
\* failed, the second was still closed, and the failure was returned
C8_Witness ==
    /\ ret.op = "Close"
    /\ Len(ret.calls) = 3
    /\ drvs[ret.calls[1]].kind = "stack"
    /\ drvs[ret.calls[1]].ignoreExceptions
    /\ ret.failed = {ret.calls[2]}
    /\ ret.derr = CloseErr(ret.calls[2])

\* the last call was a Channel call that returned a Logger
ChannelReturned == ret.op = "Channel" /\ ret.err = "nil"

\* the context of the entry Logger l emits, given the merged call-site context
EntryContext(l, context) ==
    BuildEntry(l, InfoLevel, FALSE, context).Context

\* C9 as stated: a Logger obtained after ShareContext(m) carries every key of
\* m, whatever happened in between.
C9_Original ==
    ChannelReturned => history.shared \subseteq DOMAIN loggers[ret.logger].ctx

\* C9 amended: a Logger obtained after ShareContext(m), with no
\* FlushSharedContext in between, carries every key of m, and so does every
\* entry it emits.
C9_SharedKeysCarried ==
    ChannelReturned =>
        /\ history.fresh \subseteq DOMAIN loggers[ret.logger].ctx
        /\ \A context \in MergedContexts :
              history.fresh \subseteq DOMAIN EntryContext(ret.logger, context)

\* a channel constructed after ShareContext: its Logger has the shared keys
C9_Witness ==
    /\ ChannelReturned
    /\ ret.built # <<>>
    /\ history.fresh # {}
    /\ history.fresh \subseteq DOMAIN loggers[ret.logger].ctx

\* C10: ShareContext and FlushSharedContext change neither the context of a
\* Logger obtained before nor the context of the entries it emits.
C10_LoggerSnapshot ==
    [][ret'.op \in {"ShareContext", "FlushSharedContext"} =>
          \A l \in DOMAIN loggers :
              /\ l \in DOMAIN loggers'
              /\ loggers'[l] = loggers[l]
              /\ \A context \in MergedContexts :
                    EntryContext(l, context)' = EntryContext(l, context)]_vars

\* after a ShareContext, a Logger obtained before it lacks a key just shared
C10_Witness ==
    /\ ret.op = "ShareContext"
    /\ \E l \in DOMAIN loggers :
          /\ chans[loggers[l].channel].name \in DOMAIN channels
          /\ ~(DOMAIN ret.entry.Context \subseteq DOMAIN loggers[l].ctx)

\* the value the last of the maps binding key k gives it
LastBinding(maps, k) ==
    maps[Max({i \in 1..Len(maps) : k \in DOMAIN maps[i]})][k]

\* context N is context C with the maps laid over it in order: the keys of
\* both, each with the value of the last map that binds it, else that of C
IsOverlaid(N, C, maps) ==
    /\ DOMAIN N = (DOMAIN C) \cup UNION {DOMAIN maps[i] : i \in 1..Len(maps)}
    /\ \A k \in DOMAIN N :
          N[k] = IF \E i \in 1..Len(maps) : k \in DOMAIN maps[i]
                 THEN LastBinding(maps, k)
                 ELSE C[k]

\* C11: WithContext(m) on a Logger of context C returns a Logger whose
\* context is C overlaid by m, and so is the context of the entry the new
\* Logger emits; With(key, value) is WithContext of the one-key map.
C11_WithContextOverlay ==
    [][ret'.op = "WithContext" =>
          /\ ret'.parent \in DOMAIN loggers
          /\ IsOverlaid(loggers'[ret'.logger].ctx, loggers[ret'.parent].ctx, ret'.args)
          /\ \A n \in DOMAIN loggers' :
                n = ret'.logger =>
                    IsOverlaid(EntryContext(n, EmptyCtx)',
                               loggers[ret'.parent].ctx, ret'.args)
          /\ loggers'[ret'.logger].channel = loggers[ret'.parent].channel]_vars

\* WithContext(env: v1) and then WithContext(env: v2, ...) on its result: the
\* entry of the last Logger has env = v2
C11_Witness ==
    /\ ret.op = "WithContext"
    /\ ret.name = "WithContext"
    /\ ret.parent = 2
    /\ ret.logger = 3
    /\ loggers[2].ctx = [k \in {"env"} |-> "v1"]
    /\ ret.args[1]["env"] = "v2"
    /\ EntryContext(3, EmptyCtx)["env"] = "v2"

\* C12: WithContext, With, WithoutContext and the emits never change a Logger
\* that exists: every Logger keeps its context and channel, and the Logger
\* returned is a new object.
C12_ParentUntouched ==
    [][ret'.op \in {"WithContext", "WithoutContext", "log", "logWithError"} =>
          /\ \A l \in DOMAIN loggers :
                l \in DOMAIN loggers' /\ loggers'[l] = loggers[l]
          /\ ret'.op \in {"WithContext", "WithoutContext"} =>
                /\ ret'.logger \notin DOMAIN loggers
                /\ ret'.logger \in DOMAIN loggers'
                /\ ret'.logger # ret'.parent]_vars

\* a Logger returned by WithoutContext lacks a key its receiver still has
C12_Witness ==
    /\ ret.op = "WithoutContext"
    /\ \E k \in DOMAIN loggers[ret.parent].ctx : k \notin DOMAIN loggers[ret.logger].ctx

\* C13: the context of an emitted entry is the Logger's context overlaid by
\* the call-site maps in argument order: a call-site map beats the Logger's
\* context and the last call-site map beats the earlier ones.
C13_EntryContextOrder ==
    (EmitDone /\ ret.calls # <<>>) =>
        IsOverlaid(ret.entry.Context, loggers[ret.logger].ctx, ret.args)

\* an emit with two call-site maps that both bind env, on a Logger that binds
\* user: the entry has the second map's env and the first map's user
C13_Witness ==
    /\ EmitDone
    /\ ret.calls # <<>>
    /\ Len(ret.args) = 2
    /\ "user" \in DOMAIN loggers[ret.logger].ctx
    /\ "user" \in DOMAIN ret.args[1]
    /\ loggers[ret.logger].ctx["user"] # ret.args[1]["user"]
    /\ ret.args[1]["env"] # ret.args[2]["env"]
    /\ ret.entry.Context["env"] = ret.args[2]["env"]
    /\ ret.entry.Context["user"] = ret.args[1]["user"]

\* C14: Channel(name) for a name that is not cached returns an error and no
\* Logger when the name is not configured, when its driver kind is not
\* registered, or when the driver constructor fails; the first two errors
\* differ; a failing call leaves the cache, the channels and the Loggers as
\* they were, and the next Channel call for that name runs the construction
\* again.
C14_ChannelErrors ==
    [][ret'.op = "Channel" =>
          LET n == ret'.name IN
          /\ ErrNotDefined # ErrNotSupported
          /\ (n \notin DOMAIN channels /\ n \notin DOMAIN config) =>
                ret'.err = ErrNotDefined
          /\ ( /\ n \notin DOMAIN channels
               /\ n \in DOMAIN config
               /\ config[n].Driver \notin (DOMAIN driverFactories) \cup {"stack"} ) =>
                ret'.err = ErrNotSupported
          /\ ( /\ n \notin DOMAIN channels
               /\ n \in DOMAIN config
               /\ config[n].Driver \in DOMAIN driverFactories
               /\ n \in ret'.broken ) =>
                ret'.err = ErrCreateDriver
          /\ ret'.err # "nil" =>
                /\ ret'.logger = 0
                /\ loggers' = loggers
                /\ channels' = channels
                /\ chans' = chans
                /\ n \notin DOMAIN channels'
          /\ (ret.op = "Channel" /\ ret.err # "nil" /\ ret.name = n) =>
                (ret'.err # "nil" \/ ret'.built # <<>>)]_vars

\* Channel for a file channel failed in the driver constructor and cached nothing
C14_Witness ==
    /\ ret.op = "Channel"
    /\ ret.name = "file"
    /\ ret.err = ErrCreateDriver
    /\ ret.logger = 0
    /\ "file" \notin DOMAIN channels

\* C15: Manager.Close invokes Close once on the driver of every channel in
\* the cache and on no other channel's driver, goes on after a failure,
\* returns the failure of the last driver that failed (nil if none did), and
\* leaves the cache empty.
C15_ManagerClose ==
    [][ret'.op = "Close" =>
          /\ DOMAIN channels' = {}
          /\ \A c \in DOMAIN chans :
                /\ Count(ret'.calls, chans[c].driver) =
                      (IF c \in Cached(channels) THEN 1 ELSE 0)
                /\ drvs'[chans[c].driver].closes =
                      drvs[chans[c].driver].closes + (IF c \in Cached(channels) THEN 1 ELSE 0)
          /\ ret'.derr = LastFailure(ret'.calls, ret'.failed, "close")]_vars

\* two channels were cached; the Close of the first driver failed, the second
\* driver was closed all the same, and the first failure was returned
C15_Witness ==
    /\ ret.op = "Close"
    /\ Len(ret.calls) = 2
    /\ ret.calls[1] # ret.calls[2]
    /\ ret.failed = {ret.calls[1]}
    /\ ret.derr = CloseErr(ret.calls[1])
    /\ drvs[ret.calls[2]].closes = 1
    /\ DOMAIN channels = {}

\* C16: once a Channel object is constructed, its driver, its name and its
\* minimum level never change, whatever is called afterwards (Channel,
\* Default, SetDefault, ShareContext, FlushSharedContext, RegisterDriver for
\* the kind of its driver, Close); only its context map is modified.
C16_ChannelFieldsFixed ==
    [][\A c \in DOMAIN chans :
          /\ c \in DOMAIN chans'
          /\ chans'[c].name = chans[c].name
          /\ chans'[c].driver = chans[c].driver
          /\ chans'[c].level = chans[c].level
          /\ drvs'[chans[c].driver].kind = drvs[chans[c].driver].kind]_vars

\* a file channel constructed before RegisterDriver("file", ...) still has its
\* file driver, its context was patched by ShareContext, and the channel
\* constructed for the same name afterwards has the caller's driver
C16_Witness ==
    \E c1, c2 \in DOMAIN chans :
        /\ c1 < c2
        /\ chans[c1].name = "file"
        /\ chans[c2].name = "file"
        /\ drvs[chans[c1].driver].kind = "file"
        /\ drvs[chans[c2].driver].kind = "mock"
        /\ chans[c1].ctx # EmptyCtx

\* C17: Default() does what Channel(d) does for the default name d in force:
\* the configured default at first, the argument of the latest SetDefault
\* afterwards. It fails when d is not configured, returns a Logger of the
\* cached channel of d when there is one, and otherwise a Logger of the
\* channel it constructs and caches under d. SetDefault takes any name and
\* changes no Logger, channel or cache entry.
C17_DefaultFollowsSetDefault ==
    /\ defaultChannel = "file"
    /\ [][/\ ret'.op = "SetDefault" =>
                /\ defaultChannel' = ret'.name
                /\ loggers' = loggers
                /\ chans' = chans
                /\ channels' = channels
          /\ ret'.op # "SetDefault" => defaultChannel' = defaultChannel
          /\ ret'.op = "Default" =>
                LET d == defaultChannel IN
                /\ ret'.name = d
                /\ d \notin DOMAIN config =>
                      ret'.err = ErrNotDefined /\ ret'.logger = 0
                /\ d \in DOMAIN channels =>
                      /\ ret'.err = "nil"
                      /\ ret'.built = <<>>
                      /\ loggers'[ret'.logger].channel = channels[d]
                /\ ret'.err = "nil" =>
                      /\ ret'.logger = Len(loggers) + 1
                      /\ d \in DOMAIN channels'
                      /\ loggers'[ret'.logger].channel = channels'[d]
                      /\ chans'[channels'[d]].name = d]_vars

\* Default() after SetDefault("stack") returned a Logger of the stack channel,
\* and the Logger obtained before is still bound to the file channel
C17_Witness ==
    /\ ret.op = "Default"
    /\ ret.name = "stack"
    /\ ret.err = "nil"
    /\ ret.logger = 2
    /\ chans[loggers[1].channel].name = "file"
    /\ chans[loggers[2].channel].name = "stack"

\* what FileDriver d wrote, in order
WrittenBy(d) == SelectSeq(written, LAMBDA w : w.driver = d)

\* the Log calls thread t has returned from
ReturnedCalls(t) == IF writers[t].pc = "idle" THEN writers[t].n ELSE writers[t].n - 1

\* C18: the Log calls on one FileDriver exclude each other: no two threads
\* are between Lock and Unlock of the same driver; what a driver wrote is a
\* sequence of whole records, the two parts of each next to each other, the
\* last one incomplete only while its writer is still writing it; and every
\* Log call that returned contributed exactly one record.
C18_FileLogExclusive ==
    /\ \A t1, t2 \in Logging :
          writers[t1].driver = writers[t2].driver => t1 = t2
    /\ \A d \in FileDrivers :
          LET W == WrittenBy(d) IN
          \A i \in 1..Len(W) :
              IF i % 2 = 1
              THEN /\ W[i].part = 1
                   /\ i = Len(W) =>
                         /\ writers[W[i].thread].pc = "written"
                         /\ writers[W[i].thread].driver = d
                         /\ writers[W[i].thread].n = W[i].n
              ELSE W[i] = [W[i - 1] EXCEPT !.part = 2]
    /\ \A t \in Threads :
          \A k \in 1..ReturnedCalls(t) :
              \A part \in {1, 2} :
                  Cardinality({i \in 1..Len(written) :
                                  /\ written[i].thread = t
                                  /\ written[i].n = k
                                  /\ written[i].part = part}) = 1

\* both threads have written a record through the same FileDriver, and one of
\* them is writing again while the other has returned
C18_Witness ==
    \E t1, t2 \in Threads :
        /\ t1 # t2
        /\ writers[t1].pc = "written"
        /\ writers[t1].n = 2
        /\ writers[t2].pc = "idle"
        /\ writers[t2].n = 1
        /\ \E i \in 1..Len(written) :
              /\ written[i].thread = t2
              /\ written[i].driver = writers[t1].driver
              /\ written[i].part = 2

\* the calls of send made for Log call c
SendsOf(c) == {i \in 1..Len(sends) : sends[i].call = c}

\* the last call was Log on a synchronous SlackDriver
SyncLogDone == ret.op = "SlackDriver.Log" /\ ~drvs[ret.calls[1]].async

\* C19: in synchronous mode SlackDriver.Log returns a failure if and only if
\* the transport fails or the response status is outside 200..299.
C19_SyncFailsIffNot2xx ==
    SyncLogDone =>
        \A i \in SendsOf(ret.level) :
            (ret.derr # NoErr) <=>
                (sends[i].outcome.failed \/ sends[i].outcome.status \notin 200..299)

\* C20: Log on an asynchronous SlackDriver returns nil with the exchange not
\* yet made and its goroutine started; send is called at most once for a Log
\* call, whatever its outcome; and the send of every goroutine started takes
\* place eventually.
C20_AsyncFireAndForget ==
    /\ [][(ret' # ret /\ ret'.op = "SlackDriver.Log" /\ drvs[ret'.calls[1]].async) =>
             /\ ret'.derr = NoErr
             /\ sends' = sends
             /\ SendsOf(ret'.level) = {}
             /\ [call |-> ret'.level, driver |-> ret'.calls[1]] \in inflight']_vars
    /\ [](\A c \in 1..MaxCalls : Cardinality(SendsOf(c)) <= 1)
    /\ \A g \in Goroutines : (g \in inflight) ~> (SendsOf(g.call) # {})

\* the last Log call returned nil, and the send its goroutine made afterwards failed
C20_Witness ==
    /\ ret.op = "SlackDriver.Log"
    /\ drvs[ret.calls[1]].async
    /\ ret.derr = NoErr
    /\ inflight = {}
    /\ \E i \in SendsOf(ret.level) : sends[i].err # "nil"

\* C21: Manager.Close does not wait for the sends of asynchronous Log calls:
\* it returns with every goroutine that had not sent still not having sent,
\* and makes no send itself.
C21_CloseDoesNotJoin ==
    [][(ret' # ret /\ ret'.op = "Close") =>
          (inflight' = inflight /\ sends' = sends)]_vars

\* Close has returned, the cache is empty and the SlackDriver was closed,
\* while the send of an earlier asynchronous Log has not been made
C21_Witness ==
    /\ ret.op = "Close"
    /\ DOMAIN channels = {}
    /\ \E g \in inflight :
          /\ drvs[g.driver].async
          /\ drvs[g.driver].closes = 1
          /\ g.driver \in {ret.calls[i] : i \in 1..Len(ret.calls)}
          /\ SendsOf(g.call) = {}

\* the driver kinds asked for: the built-in ones, the stack kind, one that
\* gets registered and one that never is
Kinds == {"file", "slack", "stack", "unsupported", "never"}

\* C22: the registry binds exactly file and slack at first; RegisterDriver
\* makes GetDriverFactory return its factory for its kind, a built-in kind
\* included, and changes the answer for no other kind; nothing else changes
\* the registry, so a kind never registered is never found.
C22_RegistryLastWins ==
    /\ \A k \in Kinds : GetDriverFactory(k).exists <=> k \in {"file", "slack"}
    /\ GetDriverFactory("file").factory = "NewFileDriver"
    /\ GetDriverFactory("slack").factory = "NewSlackDriver"
    /\ [][/\ ret'.op = "RegisterDriver" =>
                \A k \in Kinds :
                    GetDriverFactory(k)' =
                        IF k = ret'.name
                        THEN [factory |-> ret'.args[1], exists |-> TRUE]
                        ELSE GetDriverFactory(k)
          /\ ret'.op # "RegisterDriver" =>
                \A k \in Kinds : GetDriverFactory(k)' = GetDriverFactory(k)]_vars
    /\ [](~GetDriverFactory("stack").exists /\ ~GetDriverFactory("never").exists)

\* file was bound anew after the kind unsupported had been registered: each
\* kind has the factory of its latest registration and slack its built-in one
C22_Witness ==
    /\ ret.op = "RegisterDriver"
    /\ ret.name = "file"
    /\ ret.args = <<"NewMockDriver">>
    /\ GetDriverFactory("file").factory = "NewMockDriver"
    /\ GetDriverFactory("unsupported").factory = "NewSlackDriver"
    /\ GetDriverFactory("slack").factory = "NewSlackDriver"

\* the level each name and alias stands for
LevelNamed ==
    [DEBUG |-> DebugLevel, INFO |-> InfoLevel, NOTICE |-> NoticeLevel,
     WARNING |-> WarningLevel, WARN |-> WarningLevel, ERROR |-> ErrorLevel,
     ERR |-> ErrorLevel, CRITICAL |-> CriticalLevel, CRIT |-> CriticalLevel,
     ALERT |-> AlertLevel, EMERGENCY |-> EmergencyLevel, EMERG |-> EmergencyLevel]

\* C23: ParseLevel returns, for a level name or an alias in any letter case
\* and with white space around it, the level of that name, and Info for every
\* other string, the empty one included.
C23_ParseLevelTotal ==
    ret.op = "ParseLevel" =>
        ret.level = IF ret.name \in DOMAIN LevelNamed THEN LevelNamed[ret.name]
                    ELSE InfoLevel

\* the alias WARN in mixed case between white space was parsed as Warning
C23_Witness ==
    /\ ret.op = "ParseLevel"
    /\ ret.name = "WARN"
    /\ ret.args = <<" ", "w", "A", "r", "n", "\t">>
    /\ ret.level = WarningLevel

\* C24: an emit method whose driver's Log fails returns normally, without the
\* failure, and leaves the Loggers, the Channels, the drivers and the Manager
\* as a successful emit leaves them: unchanged.
C24_EmitSwallowsFailure ==
    [][(ret'.op \in {"log", "logWithError"} /\ ret'.derr # NoErr) =>
          /\ ret'.err = "nil"
          /\ UNCHANGED <<loggers, chans, drvs, channels, defaultChannel,
                         sharedContext, config, driverFactories>>]_vars

\* a file driver's Log failed during an emit, which returned normally
C24_Witness ==
    /\ ret.op = "log"
    /\ ret.entry # NoEntry
    /\ ret.derr # NoErr
    /\ ret.failed # {}
    /\ ret.err = "nil"

\* C25: Channel for a stack whose member is itself configured with the driver
\* kind stack succeeds, and the member is built as a Stack driver over its own
\* members.
C25_NestedStackConstructed ==
    (ret.op = "Channel" /\ ret.name = "nested") =>
        /\ ret.err = "nil"
        /\ ret.logger \in DOMAIN loggers
        /\ LET outer == drvs[RetChannel.driver] IN
           /\ outer.kind = "stack"
           /\ Len(outer.drivers) = 1
           /\ drvs[outer.drivers[1]].kind = "stack"
           /\ Len(drvs[outer.drivers[1]].drivers) = Len(config["stack"].Channels)

\* the lines of the given kind in the record written last
LinesOf(kind) == {i \in 1..Len(written) : written[i].kind = kind}

\* the trace of the entry formatted last
FormattedTrace == ret.entry.Exception[1].Trace

\* C26: of a trace of n frames at most 11 are printed; the summary line
\* `... and N more` is there exactly if n > 11, and N is then n - 11, the
\* number of frames not printed.
C26_TraceCappedAt11 ==
    (ret.op = "format" /\ ret.entry.Exception # <<>>) =>
        LET n == Len(FormattedTrace) IN
        /\ Cardinality(LinesOf("frame")) <= 11
        /\ (LinesOf("more") # {}) <=> (n > 11)
        /\ \A i \in LinesOf("more") :
              /\ written[i].n = n - 11
              /\ written[i].n = n - Cardinality(LinesOf("frame"))

\* s with its first letter and every letter after an underscore in upper case
Title(s) ==
    [i \in 1..Len(s) |->
        IF (i = 1 \/ s[i - 1] = "_") /\ s[i] \in DOMAIN UpperCase
        THEN UpperCase[s[i]] ELSE s[i]]

\* C27: the record of an entry has the entry's message and the display name
\* of its level, and for each context key one line, in which the key is
\* title-cased.
C27_FormatTitleCasedKeys ==
    ret.op = "format" =>
        /\ written[1].message = ret.entry.Message
        /\ written[1].level = LevelString(ret.entry.Level)
        /\ Cardinality(LinesOf("context")) = Cardinality(DOMAIN ret.entry.Context)
        /\ \A k \in DOMAIN ret.entry.Context :
              \E i \in LinesOf("context") : written[i].key = Title(k)

\* the calls the package-level functions leave in ret
GlobalOps ==
    {"golog.Channel", "golog.Default", "golog.Close", "golog.ShareContext"}
    \cup {GlobalFunctions[f] : f \in DOMAIN GlobalFunctions}

\* C28: while there is no global Manager, the package-level Channel and
\* Default return ErrNotInitialized and no Logger, and ShareContext, Close
\* and the convenience functions return; none of them changes anything.
C28_NotInitializedNoOp ==
    [][(golog.defaultManager = "nil" /\ ret'.op # "golog.Init") =>
          /\ ret'.op \in GlobalOps
          /\ UNCHANGED <<golog, config, driverFactories, channels, defaultChannel,
                         sharedContext, chans, drvs, loggers, threads, history, driverIO>>
          /\ ret'.logger = 0
          /\ ret'.entry = NoEntry
          /\ ret'.calls = <<>>
          /\ ret'.op \in {"golog.Channel", "golog.Default"} =>
                ret'.err = ErrNotInitialized
          /\ ret'.op \in {"golog.Close", "golog.ShareContext"} => ret'.err = "nil"]_vars

\* Emergency was called after Close had removed the global Manager
C28_Witness ==
    /\ golog = [defaultManager |-> "nil", once |-> TRUE]
    /\ ret.op = "golog.Emergency"
    /\ ret.err = ErrNotInitialized
    /\ ret.logger = 0
    /\ Len(loggers) = 1

\* C29: the first Init(c1) makes the global Manager from c1; every later
\* Init(c2) returns no error and leaves the package variables and the Manager
\* as they are.
C29_InitOnce ==
    [][ret'.op = "golog.Init" =>
          /\ ret'.err = "nil"
          /\ IF golog.once
             THEN UNCHANGED <<golog, config, channels, defaultChannel, sharedContext,
                              chans, drvs, loggers>>
             ELSE /\ config' = GlobalConfigs[ret'.name]
                  /\ golog' = [defaultManager |-> "manager", once |-> TRUE]]_vars

\* Init(c2) was called while the global Manager made from c1 had a channel
C29_Witness ==
    /\ ret.op = "golog.Init"
    /\ ret.name = "c2"
    /\ golog = [defaultManager |-> "manager", once |-> TRUE]
    /\ config = GlobalConfigs["c1"]
    /\ DOMAIN channels = {"file"}

\* C30: after FlushSharedContext the shared context is empty and
\* SharedContext() returns an empty map, whatever was shared before; the
\* channel cache and the default channel name are as they were.
C30_FlushEmpties ==
    [][ret'.op = "FlushSharedContext" =>
          /\ sharedContext' = EmptyCtx
          /\ \A c \in Ctxs : c = SharedContext' => DOMAIN c = {}
          /\ channels' = channels
          /\ defaultChannel' = defaultChannel]_vars

\* the context was flushed after a key had been shared, with a channel cached
\* and a default channel set by the caller
C30_Witness ==
    /\ ret.op = "FlushSharedContext"
    /\ history.shared # {}
    /\ history.fresh = {}
    /\ sharedContext = EmptyCtx
    /\ DOMAIN channels # {}
    /\ defaultChannel = "stack"

\* C31: the Logger WithoutContext(keys...) returns has the receiver's channel
\* and the receiver's context without exactly the named keys: every other key
\* keeps its value, and a named key that is not bound changes nothing.
C31_WithoutContextRemoves ==
    ret.op = "WithoutContext" =>
        LET new == loggers[ret.logger]
            old == loggers[ret.parent]
            named == {ret.args[i] : i \in 1..Len(ret.args)}
        IN
        /\ new.channel = old.channel
        /\ DOMAIN new.ctx = (DOMAIN old.ctx) \ named
        /\ \A k \in DOMAIN new.ctx : new.ctx[k] = old.ctx[k]
        /\ (named \cap DOMAIN old.ctx = {}) => new.ctx = old.ctx

\* env and user were named where only user was bound: the Logger returned
\* has an empty context
C31_Witness ==
    /\ ret.op = "WithoutContext"
    /\ ret.args = <<"env", "user">>
    /\ DOMAIN loggers[ret.parent].ctx = {"user"}
    /\ DOMAIN loggers[ret.logger].ctx = {}

\* thread t holds m.mu, for reading or for writing
HoldsLock(t) == threads[t].pc = "write" \/ ReadHolding(threads[t].pc)

\* thread t is reading or writing the field m.defaultChannel
AtDefaultName(t) ==
    \/ threads[t].pc = "readDefault"
    \/ threads[t].pc = "write" /\ threads[t].op = "SetDefault"

\* C32: every read and every write of the Manager's default channel name is
\* made while holding m.mu, so that no thread reads the name in Default while
\* another one writes it in SetDefault.
C32_DefaultNameUnderLock ==
    /\ \A t \in Threads : AtDefaultName(t) => HoldsLock(t)
    /\ \A t, u \in Threads :
          ~(/\ threads[t].pc = "readDefault"
            /\ threads[u].pc = "write"
            /\ threads[u].op = "SetDefault")

\* thread t is reading the ctx map of a cached LogChannel in NewLogger
CopiesCached(t) == threads[t].pc = "copy" /\ threads[t].ch \in Cached(channels)

\* C33: the ctx map of a cached LogChannel is never read by NewLogger while
\* ShareContext is writing to it.
C33_ChannelContextNotRaced ==
    \A t, u \in Threads :
        ~(/\ CopiesCached(t)
          /\ threads[u].pc = "write"
          /\ threads[u].op = "ShareContext")

\* C34: once Manager.Close has returned, every Driver the Manager has
\* constructed has been closed, the members built for a stack whose
\* construction was given up included.
C34_EveryDriverClosed ==
    ret.op = "Close" => \A d \in DOMAIN drvs : drvs[d].closes >= 1

\* C35: no Driver receives a Log call after its Close has been called, even
\* through a Logger that was obtained before Manager.Close.
C35_NoLogAfterClose ==
    EmitDone => \A k \in 1..Len(ret.calls) : drvs[ret.calls[k]].closes = 0

\* the configured channels whose file driver is d
MemberNames(d) ==
    {n \in DOMAIN config : config[n].Driver = drvs[d].kind /\ config[n].Path = drvs[d].path}

\* C36: a stack hands an entry to a member only if the entry's level is at
\* least the level configured for that member's channel.
C36_StackHonoursMemberLevels ==
    StackEmit =>
        \A k \in 2..Len(ret.calls) :
            \A n \in MemberNames(ret.calls[k]) : ret.level >= ParseLevel(config[n].Level)

\* the keys that were shared and have been flushed since
FlushedKeys == history.shared \ history.fresh

\* C37: a Logger obtained after ShareContext(m) and a later
\* FlushSharedContext carries none of the keys of m, also when its channel
\* was already cached at the time of ShareContext.
C37_FlushedKeysGone ==
    ChannelReturned => FlushedKeys \cap DOMAIN loggers[ret.logger].ctx = {}

\* C38: whenever the package-level Init returns without an error, a global
\* Manager is installed, also when Init is called again after Close.
C38_InitInstallsManager ==
    (ret.op = "golog.Init" /\ ret.err = "nil") => Initialized(golog)

\* the threads inside a call
Inside == {t \in Threads : threads[t].pc \notin {"idle", "fatal"}}

\* C39: whatever the interleaving of Channel, Default, SetDefault,
\* ShareContext, SharedContext, FlushSharedContext, Close and the
\* package-level Close, a thread inside a call returns from it or the
\* process has been aborted on a concurrent map access; no call waits for a
\* lock for ever: each thread is outside every call again and again.
C39_EveryCallReturns ==
    \A t \in Threads : []<>(t \notin Inside)

\* the package-level Close holds the package's lock and waits for m.mu while
\* the other thread holds m.mu inside ShareContext
C39_Witness ==
    \E t, u \in Threads :
        /\ threads[t].op = "golog.Close"
        /\ threads[t].pc = "wait"
        /\ threads[u].op = "ShareContext"
        /\ threads[u].pc = "write"

\* member n of a stack cannot be looked up: it is not configured, or no
\* factory is registered for its driver kind
NoLookup(n) ==
    \/ n \notin DOMAIN config
    \/ config[n].Driver \notin DOMAIN driverFactories

\* the error of the member lookup for n
LookupError(n) ==
    IF n \notin DOMAIN config THEN ErrStackMemberNotDefined ELSE ErrNotSupported

\* the positions in the member list of stack name that cannot be looked up
NoLookups(name) ==
    {i \in 1..Len(config[name].Channels) : NoLookup(config[name].Channels[i])}

\* the first of these positions
FirstNoLookup(name) ==
    CHOOSE i \in NoLookups(name) : \A j \in NoLookups(name) : i <= j

\* the last call was Channel for a configured stack
StackRequested ==
    /\ ret.op = "Channel"
    /\ ret.name \in DOMAIN config
    /\ config[ret.name].Driver = "stack"

\* C40: Channel for a stack with a member that is not configured, or whose
\* driver kind is not registered, returns an error and no Logger and caches
\* nothing, also when IgnoreExceptions is set: with the flag set the error is
\* that of the first such member. The flag tolerates the failure of a member's
\* constructor only: a stack with members all of which can be looked up is
\* built under the flag whichever constructors fail.
C40_MemberLookupAborts ==
    StackRequested =>
        LET cfg == config[ret.name] IN
        IF NoLookups(ret.name) # {}
        THEN /\ ret.err \in {ErrStackMemberNotDefined, ErrNotSupported, ErrCreateDriver}
             /\ ret.logger = 0
             /\ ret.name \notin DOMAIN channels
             /\ cfg.IgnoreExceptions =>
                   ret.err = LookupError(cfg.Channels[FirstNoLookup(ret.name)])
        ELSE (cfg.IgnoreExceptions /\ cfg.Channels # <<>>) => ret.err = "nil"

\* under IgnoreExceptions the member file was built, and the construction was
\* given up at the member that is not configured
C40_Witness ==
    /\ StackRequested
    /\ ret.name = "dangling"
    /\ config["dangling"].IgnoreExceptions
    /\ ret.built # <<>>
    /\ ret.err = ErrStackMemberNotDefined

====
